---- MODULE Spec2Model ----
(***************************************************************************)
(* Dataref observation and notification subsystem of cockpitdecks:         *)
(* the observable value (Dataref) and the value registry / change detector *)
(* (Simulator) of src/cockpitdecks/simulator.py.                            *)
(*                                                                         *)
(* Python values are encoded as pairs <<tag, n>> so that values of         *)
(* different Python types can be compared: None is <<"none", 0>>, a number *)
(* x is <<"num", 10 * x>> (numbers are kept in tenths, so 1.4 is 14), a    *)
(* string is <<"str", k>>.  Timestamps (now()) and log output are not      *)
(* part of the state.                                                      *)
(***************************************************************************)
EXTENDS Integers, Sequences, FiniteSets, TLC

VARIABLES
    dref,                \* a Dataref object used on its own (Dataref's fields)
    lastCall,            \* observation of the last operation on dref
    all_datarefs,        \* Simulator.all_datarefs: path -> Dataref
    datarefs_to_monitor, \* Simulator.datarefs_to_monitor: path -> count
    previous_values,     \* Simulator.previous_values: path -> value
    current_values,      \* Simulator.current_values: ordered dict, <<path, value>> pairs
    roundings,           \* Simulator.roundings: path -> int
    lastOp,              \* observation of the last registry operation
    passes,              \* number of detect_changed() calls made
    net,                 \* per path: adds minus removes since the path was last absent
    dataref_db_lock,     \* Simulator.dataref_db_lock: the thread that holds it
    writer,              \* the transport/update thread: position, values left to write
    detector,            \* a detect_changed() call in progress: position, locals
    fired,               \* per detect_changed() call, the dataref_changed callbacks made
    added,               \* the objects handed to dref.add_listener(), in call order
    made,                \* the last Dataref constructed, with the constructor's arguments
    running,             \* DrawAnimation.running: "None", "True" or "False"
    exit,                \* DrawAnimation.exit: 0 for None, or the Event it refers to
    thread,              \* DrawAnimation.thread: 0 for None, or the Thread it refers to
    threads,             \* the loop threads created so far: position of each
    events,              \* the threading.Event objects that are set
    tween,               \* DrawAnimation.tween
    caller,              \* the thread that calls anim_start()/anim_stop(): position
    lastAnim,            \* observation of the last anim_start()/anim_stop() call
    abandoned,           \* loop threads an anim_stop() gave up joining
    poll,                \* a polling animation: running, finished, thread, its Events
    poll_threads,        \* position of every loop thread of the polling animation
    poll_caller,         \* position of the thread inside its anim_stop()
    decks,               \* per deck: current_page, previous_page, page_history, loaded
    process,             \* the other threads of the process and the caller of stop()
    wire,                \* bytes the device has sent that connection.read() has not returned yet
    consumed,            \* all bytes connection.read() has returned so far
    sent,                \* what the device has sent: the bytes before a frame, the frames
    _buffer,             \* Loupedeck._buffer: the accumulation buffer
    _messages,           \* Loupedeck._messages: the queue of reconstructed messages
    put,                 \* every message put on the queue so far, in order
    handled,             \* every message the dispatcher has taken from the queue, in order
    lastRead,            \* observation of the last parser call
    lastDispatch,        \* observation of the last message dispatched
    pendingTransactions, \* Loupedeck.pendingTransactions: transaction id -> entry
    transaction_id,      \* Loupedeck.transaction_id
    lastDo,              \* observation of the last do_action() call
    lastSend,            \* observation of the last send() call: what was written
    inited,              \* Loupedeck.inited
    ld_running,          \* Loupedeck.running
    readers,             \* the _read_serial threads that are alive
    dispatchers,         \* the _process_messages threads that are alive
    stopping,            \* a stop() call is waiting in its joins
    rendering            \* observation of the last render() call of the animation

valueVars == <<dref, lastCall>>
registryVars == <<all_datarefs, datarefs_to_monitor, previous_values, current_values, roundings>>
observerVars == <<lastOp, passes, net>>
threadVars == <<dataref_db_lock, writer, detector>>
objectVars == <<added, made>>
animVars == <<running, exit, thread, threads, events, tween, caller, lastAnim, abandoned>>
framingVars == <<wire, consumed, sent, _buffer, _messages, put, handled, lastRead, lastDispatch>>
transactionVars == <<pendingTransactions, transaction_id, lastDo, lastSend>>
unitVars == <<inited, ld_running, readers, dispatchers, stopping>>
transportVars == <<framingVars, transactionVars, unitVars>>
renderVars == <<rendering>>
pollVars == <<poll, poll_threads, poll_caller>>
pageVars == <<decks>>
processVars == <<process>>
deckVars == <<renderVars, pollVars, pageVars, processVars>>
PollFrame == <<valueVars, registryVars, observerVars, threadVars, fired, objectVars, animVars,
               transportVars>>
StopFrame == <<valueVars, registryVars, observerVars, threadVars, fired, objectVars, animVars,
               renderVars, pollVars, pageVars>>
simulatorVars == <<valueVars, registryVars, observerVars, threadVars, fired, objectVars, animVars,
                   deckVars>>
vars == <<dref, lastCall, all_datarefs, datarefs_to_monitor, previous_values,
          current_values, roundings, lastOp, passes, net,
          dataref_db_lock, writer, detector, fired, added, made,
          running, exit, thread, threads, events, tween, caller, lastAnim, abandoned,
          wire, consumed, sent, _buffer, _messages, put, handled, lastRead, lastDispatch,
          pendingTransactions, transaction_id, lastDo, lastSend,
          inited, ld_running, readers, dispatchers, stopping,
          rendering, poll, poll_threads, poll_caller, decks, process>>

----------------------------------------------------------------------------
(* Bounds of the model *)

MaxUpdates == 3
MaxPasses == 2
MaxScenarioPasses == 3
MaxCount == 2
MaxAdds == 3
MaxThreads == 2
MaxTween == 2
MaxStream == 5
MaxFrames == 2
MaxUnits == 2
MaxPollThreads == 2
MaxHistory == 3
MaxOthers == 2

----------------------------------------------------------------------------
(* Python values *)

None == <<"none", 0>>
Num(n) == <<"num", n>>
Str(k) == <<"str", k>>
IntOf(n) == <<"int", n>>

IsNumber(v) == v[1] = "num"

\* a dict as a function on a finite set of keys
EmptyDict == [k \in {} |-> None]
DictSet(f, k, v) == [x \in (DOMAIN f) \cup {k} |-> IF x = k THEN v ELSE f[x]]
DictDel(f, k) == [x \in (DOMAIN f) \ {k} |-> f[x]]

\* the characters of a string
Chars(p) == [i \in 1..Len(p) |-> SubSeq(p, i, i)]

INTERNAL_DATAREF_PREFIX == <<"d", "a", "t", "a", ":">>

startswith(s, prefix) ==
    /\ Len(s) >= Len(prefix)
    /\ SubSeq(s, 1, Len(prefix)) = prefix

is_internal_dataref(p) == startswith(Chars(p), INTERNAL_DATAREF_PREFIX)

\* Python's round(x, ndigits) on a number kept in tenths: ties go to the even digit
RECURSIVE Pow10(_)
Pow10(n) == IF n <= 0 THEN 1 ELSE 10 * Pow10(n - 1)

round(x, ndigits) ==
    IF ndigits >= 1 THEN x
    ELSE LET U == Pow10(1 - ndigits)
             q == x \div U
             r == x % U
         IN  IF 2 * r < U THEN q * U
             ELSE IF 2 * r > U THEN (q + 1) * U
             ELSE IF q % 2 = 0 THEN q * U ELSE (q + 1) * U

----------------------------------------------------------------------------
(* Dataref *)

NewDataref(path) ==
    [ path |-> path,
      _previous_value |-> None,
      _current_value |-> None,
      _updated |-> 0,
      _changed |-> 0,
      previous_value |-> None,
      current_value |-> None,
      listeners |-> <<>>,
      round |-> None ]

\* Python truth value of a flag kept as "None", "False", "True" or "byte"
truthy(x) == x \notin {"None", "False"}

\* s[-1] and s[-2:-1] of a string
last_char(s) == IF Len(s) >= 1 THEN SubSeq(s, Len(s), Len(s)) ELSE ""
before_last_char(s) == IF Len(s) >= 2 THEN SubSeq(s, Len(s) - 1, Len(s) - 1) ELSE ""

\* line 83: the path ends with ":" and one of the letters of "difsb"
has_type_suffix(path) ==
    /\ Len(path) > 3
    /\ before_last_char(path) = ":"
    /\ last_char(path) \in {"d", "i", "f", "s", "b"}

\* Dataref(path, is_decimal, is_string), lines 59-97: the fields of NewDataref
\* and the typing fields; typ is read from the local path after line 84 has cut
\* the suffix from it; self.path keeps the argument.  The paths of the model
\* hold no "[" and length is left at None, so lines 99-110 change nothing.
Dataref(path, is_decimal, is_string) ==
    LET cut == has_type_suffix(path)
        local == IF cut THEN SubSeq(path, 1, Len(path) - 2) ELSE path
        typ == IF cut THEN last_char(local) ELSE ""
    IN  [ data_type |-> IF typ = "d" THEN "int" ELSE IF typ = "s" THEN "str" ELSE "float",
          is_array |-> (typ = "s"),
          is_decimal |-> IF typ = "d" THEN "True" ELSE is_decimal,
          is_string |-> IF typ = "s" THEN "True" ELSE IF typ = "b" THEN "byte" ELSE is_string ]
        @@ NewDataref(path)

\* line 96: the case that is logged as an error
both_decimal_and_string(d) == truthy(d.is_decimal) /\ truthy(d.is_string)

set_round(d, rounding) == [d EXCEPT !.round = rounding]

\* a path of None (no path), as opposed to the empty string
NonePath == "<None>"

exists(d) == d.path # NonePath

\* faulty variant: a transition from or to None is not seen as a change
has_changed_none_unchanged(d) ==
    d.previous_value # None /\ d.current_value # None
        /\ d.current_value # d.previous_value

has_changed(d) ==
    IF d.previous_value = None /\ d.current_value = None THEN FALSE
    ELSE IF d.previous_value = None /\ d.current_value # None THEN TRUE
    ELSE IF d.previous_value # None /\ d.current_value = None THEN TRUE
    ELSE d.current_value # d.previous_value

\* the value update_value stores as current_value (lines 168-172)
rounded(d, new_value) ==
    IF d.round # None /\ IsNumber(new_value)
    THEN Num(round(new_value[2], d.round[2]))
    ELSE new_value

\* faulty variant: the listener is called before the new value is stored
Event_before_store(kind, l, d) ==
    [ kind |-> kind, listener |-> l, path |-> d.path,
      current |-> d.previous_value, previous |-> d.previous_value ]

\* one listener callback, as the listener sees the value when it is called
Event(kind, l, d) ==
    [ kind |-> kind, listener |-> l, path |-> d.path,
      current |-> d.current_value, previous |-> d.previous_value ]

\* faulty variant: only the first listener is called
notify_first_only(d) ==
    IF has_changed(d) /\ Len(d.listeners) > 0
    THEN << Event("dataref_changed", d.listeners[1], d) >>
    ELSE <<>>

notify(d) ==
    IF has_changed(d)
    THEN [i \in 1..Len(d.listeners) |-> Event("dataref_changed", d.listeners[i], d)]
    ELSE <<>>

\* faulty variant: listeners are told of an update only when the value changed
notify_updated_if_changed(d) ==
    IF has_changed(d)
    THEN [i \in 1..Len(d.listeners) |-> Event("dataref_updated", d.listeners[i], d)]
    ELSE <<>>

notify_updated(d) ==
    [i \in 1..Len(d.listeners) |-> Event("dataref_updated", d.listeners[i], d)]

\* no listener callback raises
NoFail == [at |-> 0, exc |-> "none"]

\* update_value(new_value, cascade).  fail.at = k > 0 makes the k-th listener
\* callback of the call raise fail.exc; the call then stops there.
\* Result: the Dataref afterwards, the callbacks made, the exception raised.
update_value(d, new_value, cascade, fail) ==
    LET d1 == [d EXCEPT !._previous_value = d._current_value,
                        !._current_value = new_value,
                        !.previous_value = d.current_value,
                        !.current_value = rounded(d, new_value),
                        !._updated = d._updated + 1]
        upd == notify_updated(d1)
        d2 == [d1 EXCEPT !._changed = d1._changed + 1]
        chg == IF cascade THEN notify(d2) ELSE <<>>
    IN  IF fail.at \in 1..Len(upd)
        THEN [d |-> d1, calls |-> SubSeq(upd, 1, fail.at), exc |-> fail.exc]
        ELSE IF ~has_changed(d1)
        THEN [d |-> d1, calls |-> upd, exc |-> "none"]
        ELSE IF (fail.at - Len(upd)) \in 1..Len(chg)
        THEN [d |-> d2, calls |-> upd \o SubSeq(chg, 1, fail.at - Len(upd)),
              exc |-> fail.exc]
        ELSE [d |-> d2, calls |-> upd \o chg, exc |-> "none"]

\* faulty variant: the object is appended even when it is in the list
add_listener_again(d, obj) == [d EXCEPT !.listeners = Append(d.listeners, obj)]

\* lines 187-188; the isinstance test of line 185 only decides on a warning
add_listener(d, obj) ==
    IF \E i \in 1..Len(d.listeners) : d.listeners[i] = obj
    THEN d
    ELSE [d EXCEPT !.listeners = Append(d.listeners, obj)]

----------------------------------------------------------------------------
(* Inputs *)

Listeners == {"L1", "L2"}
\* an object that is not a DatarefListener and has none of its methods
NotListeners == {"X"}
Objects == Listeners \cup NotListeners
\* line 185: isinstance(obj, DatarefListener)
isinstance_DatarefListener(obj) == obj \in Listeners
ExcKinds == {"RuntimeError", "ValueError"}
ValueInputs == {None, Num(10), Num(14), Num(20), Str(0)}
RoundInputs == {None, IntOf(0), IntOf(1)}
Fails(n, kinds) == {NoFail} \cup [at : 1..n, exc : kinds]

----------------------------------------------------------------------------
(* A Dataref used on its own *)

NoCall == [op |-> "none", new_value |-> None, cascade |-> FALSE,
           before |-> NewDataref("a/b"), calls |-> <<>>, exc |-> "none"]

ValueInit ==
    /\ dref = NewDataref("a/b")
    /\ lastCall = NoCall

DrefSetRound ==
    \E r \in RoundInputs :
        /\ dref' = set_round(dref, r)
        /\ lastCall' = [NoCall EXCEPT !.op = "set_round", !.before = dref]

DrefAddListener ==
    \E l \in Listeners :
        /\ dref' = add_listener(dref, l)
        /\ lastCall' = [NoCall EXCEPT !.op = "add_listener", !.before = dref]

DrefUpdateValue ==
    /\ dref._updated < MaxUpdates
    /\ \E v \in ValueInputs, cascade \in BOOLEAN,
          fail \in Fails(2 * Len(dref.listeners), {"RuntimeError"}) :
        LET r == update_value(dref, v, cascade, fail)
        IN  /\ dref' = r.d
            /\ lastCall' = [op |-> "update_value", new_value |-> v, cascade |-> cascade,
                            before |-> dref, calls |-> r.calls, exc |-> r.exc]

\* calling dataref_updated / dataref_changed on an object that has no such
\* method raises AttributeError: the first such object of the list ends the call
missing_method(d) ==
    IF \E i \in 1..Len(d.listeners) : ~isinstance_DatarefListener(d.listeners[i])
    THEN [at |-> CHOOSE i \in 1..Len(d.listeners) :
                    /\ ~isinstance_DatarefListener(d.listeners[i])
                    /\ \A j \in 1..(i - 1) : isinstance_DatarefListener(d.listeners[j]),
          exc |-> "AttributeError"]
    ELSE NoFail

\* the arguments of the constructor: a base path, a type letter or "none" for
\* a path without suffix, and the two flags
BasePaths == {"", "x", "a/b", "c/d", "a/s", "a/x", "sim/i"}
Suffixes == {"d", "i", "f", "s", "b"}
Flags == {"False", "True"}

GivenPath(base, suffix) == IF suffix = "none" THEN base ELSE base \o ":" \o suffix

Made(base, suffix, is_decimal, is_string) ==
    [ base |-> base, suffix |-> suffix, path |-> GivenPath(base, suffix),
      is_decimal |-> is_decimal, is_string |-> is_string,
      obj |-> Dataref(GivenPath(base, suffix), is_decimal, is_string) ]

NoObject == Made("a/b", "none", "False", "False")

Construct(bases, suffixes, decimals, strings) ==
    \E base \in bases, suffix \in suffixes, is_decimal \in decimals, is_string \in strings :
        made' = Made(base, suffix, is_decimal, is_string)

\* add_listener(obj) with any object
DrefAddObject ==
    /\ Len(added) < MaxAdds
    /\ \E obj \in Objects :
        /\ dref' = add_listener(dref, obj)
        /\ added' = Append(added, obj)
        /\ lastCall' = [NoCall EXCEPT !.op = "add_listener", !.before = dref]

\* update_value() on a Dataref whose list may hold any object
DrefUpdateObjects ==
    /\ dref._updated < MaxUpdates
    /\ \E v \in {Num(10), Num(20)}, cascade \in BOOLEAN :
        LET r == update_value(dref, v, cascade, missing_method(dref))
        IN  /\ dref' = r.d
            /\ lastCall' = [op |-> "update_value", new_value |-> v, cascade |-> cascade,
                            before |-> dref, calls |-> r.calls, exc |-> r.exc]
    /\ UNCHANGED added

----------------------------------------------------------------------------
(* Simulator: the value registry *)

Paths == {"a/b", "c/d", "data:x"}
ExternalPaths == {p \in Paths : ~is_internal_dataref(p)}

\* str.find(c): index of the first occurrence, counted from 0, or -1
find(s, c) ==
    IF \E i \in 1..Len(s) : s[i] = c
    THEN (CHOOSE i \in 1..Len(s) : s[i] = c /\ \A j \in 1..(i - 1) : s[j] # c) - 1
    ELSE -1

\* dict.get(key) of a dict keyed by path strings, the key given by its characters
get_chars(f, cs) ==
    IF \E k \in DOMAIN f : Chars(k) = cs
    THEN f[CHOOSE k \in DOMAIN f : Chars(k) = cs]
    ELSE None

get(f, k) == IF k \in DOMAIN f THEN f[k] ELSE None

set_rounding(rnds, d) ==
    IF find(Chars(d.path), "[") > 0
    THEN IF get(rnds, d.path) # None
         THEN set_round(d, get(rnds, d.path))
         ELSE LET base == SubSeq(Chars(d.path), 1, find(Chars(d.path), "["))
                  rnd == get_chars(rnds, base \o <<"[", "*", "]">>)
              IN  IF rnd # None THEN set_round(d, rnd) ELSE d
    ELSE set_round(d, get(rnds, d.path))

register(ad, rnds, d) ==
    IF d.path \notin DOMAIN ad
    THEN IF exists(d) THEN DictSet(ad, d.path, set_rounding(rnds, d)) ELSE ad
    ELSE ad

\* add_datarefs_to_monitor, one dataref of the loop (lines 356-363)
add_one(mon, p) ==
    IF is_internal_dataref(p) THEN mon
    ELSE IF p \notin DOMAIN mon THEN DictSet(mon, p, 1)
    ELSE DictSet(mon, p, mon[p] + 1)

RECURSIVE add_datarefs_to_monitor(_, _)
add_datarefs_to_monitor(mon, datarefs) ==
    IF datarefs = <<>> THEN mon
    ELSE add_datarefs_to_monitor(add_one(mon, Head(datarefs)), Tail(datarefs))

\* remove_datarefs_to_monitor, one dataref of the loop (lines 370-380)
\* faulty variant: a count that reaches 0 is kept
remove_one_keep_zero(mon, p) ==
    IF is_internal_dataref(p) THEN mon
    ELSE IF p \in DOMAIN mon THEN DictSet(mon, p, mon[p] - 1)
    ELSE mon

remove_one(mon, p) ==
    IF is_internal_dataref(p) THEN mon
    ELSE IF p \in DOMAIN mon
         THEN IF mon[p] - 1 = 0 THEN DictDel(mon, p) ELSE DictSet(mon, p, mon[p] - 1)
         ELSE mon

RECURSIVE remove_datarefs_to_monitor(_, _)
remove_datarefs_to_monitor(mon, datarefs) ==
    IF datarefs = <<>> THEN mon
    ELSE remove_datarefs_to_monitor(remove_one(mon, Head(datarefs)), Tail(datarefs))

----------------------------------------------------------------------------
(* Simulator.detect_changed *)

\* an ordered dict as a sequence of <<key, value>> pairs with distinct keys
OKeys(od) == {od[i][1] : i \in 1..Len(od)}
OGet(od, k) == od[CHOOSE i \in 1..Len(od) : od[i][1] = k][2]

\* faulty variant: a path never seen before is not taken as changed
differs_only_known(pv, d, v) == d \in DOMAIN pv /\ v # pv[d]

\* line 319: the snapshot value is new or differs from the last value seen
differs(pv, d, v) == d \notin DOMAIN pv \/ v # pv[d]

\* faulty variant: every update is cascaded
cascade_always(mon, d) == TRUE

\* line 321: cascade exactly for the monitored paths
cascade_for(mon, d) == d \in DOMAIN mon

\* only RuntimeError is caught (line 333); anything else reaches the caller
escapes(exc) == IF exc \in {"none", "RuntimeError"} THEN "none" ELSE exc

\* one iteration of the loop of lines 318-328, for the item d: v of the copy;
\* acc is [ad: all_datarefs, calls: callbacks made so far, exc: exception raised]
detect_step(d, v, pv, mon, fail, acc) ==
    IF ~differs(pv, d, v) THEN acc
    ELSE IF d \notin DOMAIN acc.ad THEN [acc EXCEPT !.exc = "KeyError"]
    ELSE LET left == IF fail.at > Len(acc.calls)
                     THEN [fail EXCEPT !.at = fail.at - Len(acc.calls)]
                     ELSE NoFail
             r == update_value(acc.ad[d], v, cascade_for(mon, d), left)
         IN  [ad |-> [acc.ad EXCEPT ![d] = r.d],
              calls |-> acc.calls \o r.calls,
              exc |-> r.exc]

\* the loop from position i of the copy; an exception ends it
RECURSIVE detect_loop(_, _, _, _, _, _)
detect_loop(currvalues, i, pv, mon, fail, acc) ==
    IF i > Len(currvalues) \/ acc.exc # "none" THEN acc
    ELSE detect_loop(currvalues, i + 1, pv, mon, fail,
                     detect_step(currvalues[i][1], currvalues[i][2], pv, mon, fail, acc))

detect_changed(ad, pv, cv, mon, fail) ==
    detect_loop(cv, 1, pv, mon, fail, [ad |-> ad, calls |-> <<>>, exc |-> "none"])

----------------------------------------------------------------------------
(* Registry operations as actions *)

\* what the last registry operation was: its argument (for detect_changed() the
\* copy it worked on), all_datarefs and datarefs_to_monitor before it, the
\* callbacks made, the exception raised inside it and the one that reached the
\* caller, and whether the operation before it was detect_changed() too
NoOp == [op |-> "init", before |-> EmptyDict, arg |-> <<>>, monitored |-> EmptyDict,
         calls |-> <<>>, exc |-> "none", escaped |-> "none", inARow |-> FALSE]

Op(name) == [NoOp EXCEPT !.op = name]

RegistryInit ==
    /\ all_datarefs = EmptyDict
    /\ datarefs_to_monitor = EmptyDict
    /\ previous_values = EmptyDict
    /\ current_values = <<>>
    /\ roundings = EmptyDict
    /\ lastOp = NoOp
    /\ passes = 0
    /\ net = [p \in Paths |-> 0]

ThreadInit ==
    /\ dataref_db_lock = "none"
    /\ writer = [pc |-> "idle", batch |-> <<>>]
    /\ detector = [pc |-> "idle", currvalues |-> <<>>, i |-> 0, before |-> EmptyDict,
                   calls |-> <<>>, exc |-> "none"]

ObjectInit ==
    /\ added = <<>>
    /\ made = NoObject


\* the datarefs argument of the monitor calls: the paths of the dict's values
DatarefLists == {<<p>> : p \in Paths} \cup {<<p, q>> : p \in Paths, q \in Paths}
SingleDatarefs == {<<p>> : p \in ExternalPaths}

RECURSIVE net_add(_, _)
net_add(n, datarefs) ==
    IF datarefs = <<>> THEN n
    ELSE LET p == Head(datarefs)
         IN  net_add(IF p \in ExternalPaths THEN [n EXCEPT ![p] = n[p] + 1] ELSE n,
                     Tail(datarefs))

RECURSIVE net_remove(_, _)
net_remove(n, datarefs) ==
    IF datarefs = <<>> THEN n
    ELSE LET p == Head(datarefs)
         IN  net_remove(IF p \in ExternalPaths /\ n[p] > 0
                        THEN [n EXCEPT ![p] = n[p] - 1] ELSE n,
                        Tail(datarefs))

Register(paths) ==
    \E p \in paths :
        /\ all_datarefs' = register(all_datarefs, roundings, NewDataref(p))
        /\ UNCHANGED <<datarefs_to_monitor, previous_values, current_values, roundings,
                       passes, net>>

\* register() of the last Dataref constructed
RegisterMade ==
    /\ all_datarefs' = register(all_datarefs, roundings, made.obj)
    /\ lastOp' = [Op("register") EXCEPT !.before = all_datarefs, !.arg = made.obj]
    /\ UNCHANGED <<datarefs_to_monitor, previous_values, current_values, roundings,
                   passes, net>>

AddListener(listeners) ==
    \E p \in DOMAIN all_datarefs, l \in listeners :
        /\ all_datarefs' = [all_datarefs EXCEPT ![p] = add_listener(@, l)]
        /\ UNCHANGED <<datarefs_to_monitor, previous_values, current_values, roundings,
                       passes, net>>

\* the observation of a monitor call, kept only where a property reads it
MonitorOp(name, ds, observe) ==
    IF observe
    THEN [Op(name) EXCEPT !.arg = ds, !.monitored = datarefs_to_monitor]
    ELSE Op("other")

AddDatarefsToMonitor(lists, observe) ==
    \E ds \in lists :
        LET mon == add_datarefs_to_monitor(datarefs_to_monitor, ds)
        IN  /\ \A p \in DOMAIN mon : mon[p] <= MaxCount
            /\ datarefs_to_monitor' = mon
            /\ net' = net_add(net, ds)
            /\ lastOp' = MonitorOp("add_datarefs_to_monitor", ds, observe)
            /\ UNCHANGED <<all_datarefs, previous_values, current_values, roundings,
                           passes>>

RemoveDatarefsToMonitor(lists, observe) ==
    \E ds \in lists :
        /\ datarefs_to_monitor' = remove_datarefs_to_monitor(datarefs_to_monitor, ds)
        /\ net' = net_remove(net, ds)
        /\ lastOp' = MonitorOp("remove_datarefs_to_monitor", ds, observe)
        /\ UNCHANGED <<all_datarefs, previous_values, current_values, roundings,
                       passes>>

CleanDatarefsToMonitor ==
    /\ datarefs_to_monitor' = EmptyDict
    /\ net' = [p \in Paths |-> 0]
    /\ UNCHANGED <<all_datarefs, previous_values, current_values, roundings, passes>>

RemoveAllDatarefs ==
    /\ all_datarefs' = EmptyDict
    /\ datarefs_to_monitor' = EmptyDict
    /\ previous_values' = EmptyDict
    /\ current_values' = <<>>
    /\ net' = [p \in Paths |-> 0]
    /\ UNCHANGED <<roundings, passes>>

\* the snapshots the transport can deliver: ordered dicts over the external paths
SnapValues == {Num(10), Num(20)}
Snapshots ==
    {<<>>}
    \cup {<< <<p, v>> >> : p \in ExternalPaths, v \in SnapValues}
    \cup {<< <<pq[1], v>>, <<pq[2], w>> >> :
            pq \in {x \in ExternalPaths \X ExternalPaths : x[1] # x[2]},
            v \in SnapValues, w \in SnapValues}

\* the transport/update thread replaces the received-values buffer
ReceiveSnapshot(snapshots) ==
    \E snap \in snapshots :
        /\ snap # current_values
        /\ current_values' = snap
        /\ UNCHANGED <<all_datarefs, datarefs_to_monitor, previous_values, roundings,
                       passes, net>>

\* kinds: the exceptions a listener callback may raise in this pass
DetectChanged(maxPasses, kinds) ==
    /\ passes < maxPasses
    /\ \E fail \in Fails(Len(detect_changed(all_datarefs, previous_values, current_values,
                                               datarefs_to_monitor, NoFail).calls),
                            kinds) :
        LET currvalues == current_values
            r == detect_changed(all_datarefs, previous_values, currvalues,
                                datarefs_to_monitor, fail)
        IN  /\ all_datarefs' = r.ad
            /\ lastOp' = [op |-> "detect_changed",
                          before |-> all_datarefs, arg |-> currvalues,
                          monitored |-> datarefs_to_monitor,
                          calls |-> r.calls, exc |-> r.exc, escaped |-> escapes(r.exc),
                          inARow |-> (lastOp.op = "detect_changed")]
            /\ passes' = passes + 1
            /\ UNCHANGED <<datarefs_to_monitor, previous_values, current_values,
                           roundings, net>>

----------------------------------------------------------------------------
(* The transport/update thread and a detection pass, step by step *)

\* faulty variant: the lock excludes nobody
can_acquire_always(lock, who) == TRUE

\* threading.RLock: free, or held by the asking thread itself
can_acquire(lock, who) == lock = "none" \/ lock = who

\* dict[key] = value on an ordered dict
OSet(od, k, v) ==
    IF k \in OKeys(od)
    THEN [i \in 1..Len(od) |-> IF od[i][1] = k THEN <<k, v>> ELSE od[i]]
    ELSE Append(od, <<k, v>>)

\* one received message: the same reading for every external path
Batches == { << <<"a/b", v>>, <<"c/d", v>> >> : v \in SnapValues }

\* the writer takes the registry lock before it touches the buffer
WriterAcquire ==
    /\ writer.pc = "idle"
    /\ can_acquire(dataref_db_lock, "writer")
    /\ \E b \in Batches : writer' = [pc |-> "writing", batch |-> b]
    /\ dataref_db_lock' = "writer"
    /\ UNCHANGED <<registryVars, observerVars, detector>>

WriterWrite ==
    /\ writer.pc = "writing"
    /\ writer.batch # <<>>
    /\ current_values' = OSet(current_values, Head(writer.batch)[1], Head(writer.batch)[2])
    /\ writer' = [writer EXCEPT !.batch = Tail(writer.batch)]
    /\ UNCHANGED <<all_datarefs, datarefs_to_monitor, previous_values, roundings,
                   observerVars, dataref_db_lock, detector>>

WriterRelease ==
    /\ writer.pc = "writing"
    /\ writer.batch = <<>>
    /\ writer' = [writer EXCEPT !.pc = "idle"]
    /\ dataref_db_lock' = "none"
    /\ UNCHANGED <<registryVars, observerVars, detector>>

\* lines 314-315: with self.dataref_db_lock: currvalues = self.current_values.copy()
DetectLockCopy ==
    /\ detector.pc = "idle"
    /\ passes < MaxPasses
    /\ can_acquire(dataref_db_lock, "detector")
    /\ dataref_db_lock' = "detector"
    /\ detector' = [pc |-> "copied", currvalues |-> current_values, i |-> 1,
                    before |-> all_datarefs, calls |-> <<>>, exc |-> "none"]
    /\ UNCHANGED <<registryVars, observerVars, writer>>

\* leaving the with block
DetectRelease ==
    /\ detector.pc = "copied"
    /\ dataref_db_lock' = "none"
    /\ detector' = [detector EXCEPT !.pc = "loop"]
    /\ UNCHANGED <<registryVars, observerVars, writer>>

\* lines 318-328, one item of the copy
DetectStep ==
    /\ detector.pc = "loop"
    /\ detector.i <= Len(detector.currvalues)
    /\ detector.exc = "none"
    /\ LET item == detector.currvalues[detector.i]
           r == detect_step(item[1], item[2], previous_values, datarefs_to_monitor, NoFail,
                            [ad |-> all_datarefs, calls |-> detector.calls,
                             exc |-> detector.exc])
       IN  /\ all_datarefs' = r.ad
           /\ detector' = [detector EXCEPT !.i = detector.i + 1, !.calls = r.calls,
                                           !.exc = r.exc]
    /\ UNCHANGED <<datarefs_to_monitor, previous_values, current_values, roundings,
                   observerVars, dataref_db_lock, writer>>

\* the loop is over, or an exception ended it
DetectReturn ==
    /\ detector.pc = "loop"
    /\ detector.i > Len(detector.currvalues) \/ detector.exc # "none"
    /\ lastOp' = [op |-> "detect_changed",
                  before |-> detector.before, arg |-> detector.currvalues,
                  monitored |-> datarefs_to_monitor,
                  calls |-> detector.calls, exc |-> detector.exc,
                  escaped |-> escapes(detector.exc),
                  inARow |-> (lastOp.op = "detect_changed")]
    /\ passes' = passes + 1
    /\ detector' = [detector EXCEPT !.pc = "idle"]
    /\ UNCHANGED <<registryVars, net, dataref_db_lock, writer>>

----------------------------------------------------------------------------
(* DrawAnimation: the animation loop and its start and stop *)

\* line 77: not self.running and self.speed is not None; speed is the float of
\* line 38 and never None
\* faulty variant: a running animation is started again
can_start_always(r) == TRUE

can_start(r) == ~truthy(r)

\* line 89: if self.running
\* faulty variant: an animation that is not running is stopped all the same
must_stop_always(r) == TRUE

must_stop(r) == truthy(r)

\* line 49: self.exit.is_set(), on the Event self.exit refers to at that time
is_set(e, set_events) == e \in set_events

\* threading.Thread.is_alive()
is_alive(ts, t) == t \in 1..Len(ts) /\ ts[t] # "done"
Alive == {t \in 1..Len(threads) : is_alive(threads, t)}

\* the fields of the animation as a call finds or leaves them
Fields ==
    [running |-> running, exit |-> exit, thread |-> thread,
     nthreads |-> Len(threads), events |-> events]

NoAnim == [op |-> "init", prev |-> "init", before |-> <<>>, after |-> <<>>,
           exc |-> "none", warned |-> FALSE, joined |-> FALSE, timedout |-> FALSE]

\* lines 41-45 of __init__
AnimInit ==
    /\ running = "None"
    /\ exit = 0
    /\ thread = 0
    /\ threads = <<>>
    /\ events = {}
    /\ tween = 0
    /\ caller = [pc |-> "idle", before |-> <<>>]
    /\ lastAnim = NoAnim
    /\ abandoned = {}

\* anim_start(), lines 77-83: Thread.start() returns when the new thread
\* exists; the thread has not run line 48 yet
AnimStart ==
    /\ caller.pc = "idle"
    /\ IF can_start(running)
       THEN /\ Len(threads) < MaxThreads
            /\ running' = "True"
            /\ threads' = Append(threads, "start")
            /\ thread' = Len(threads) + 1
       ELSE UNCHANGED <<running, threads, thread>>
    /\ lastAnim' = [NoAnim EXCEPT !.op = "anim_start", !.prev = lastAnim.op,
                                  !.before = Fields,
                                  !.after = [Fields EXCEPT !.running = running',
                                                           !.thread = thread',
                                                           !.nthreads = Len(threads')],
                                  !.warned = ~can_start(running)]
    /\ UNCHANGED <<exit, events, tween, caller, abandoned>>

\* anim_stop(), lines 89-91 and 97: up to the join; self.exit.set() on None
\* raises AttributeError after running was set to False
AnimStop ==
    /\ caller.pc = "idle"
    /\ IF ~must_stop(running)
       THEN /\ lastAnim' = [NoAnim EXCEPT !.op = "anim_stop", !.prev = lastAnim.op,
                                          !.before = Fields, !.after = Fields]
            /\ UNCHANGED <<running, events, caller>>
       ELSE IF exit = 0
       THEN /\ running' = "False"
            /\ lastAnim' = [NoAnim EXCEPT !.op = "anim_stop", !.prev = lastAnim.op,
                                          !.before = Fields,
                                          !.after = [Fields EXCEPT !.running = "False"],
                                          !.exc = "AttributeError"]
            /\ UNCHANGED <<events, caller>>
       ELSE /\ running' = "False"
            /\ events' = events \cup {exit}
            /\ caller' = [pc |-> "joining", before |-> Fields]
            /\ UNCHANGED lastAnim
    /\ UNCHANGED <<exit, thread, threads, tween, abandoned>>

\* line 92: join() returns because the thread has ended
AnimStopJoined ==
    /\ caller.pc = "joining"
    /\ ~is_alive(threads, thread)
    /\ caller' = [pc |-> "idle", before |-> <<>>]
    /\ lastAnim' = [NoAnim EXCEPT !.op = "anim_stop", !.prev = lastAnim.op,
                                  !.before = caller.before, !.after = Fields,
                                  !.joined = TRUE]
    /\ UNCHANGED <<running, exit, thread, threads, events, tween, abandoned>>

\* lines 92-94: join() returns because twice the period has passed, the thread
\* is still alive (its render step may take any time) and a warning is logged
AnimStopTimeout ==
    /\ caller.pc = "joining"
    /\ is_alive(threads, thread)
    /\ caller' = [pc |-> "idle", before |-> <<>>]
    /\ lastAnim' = [NoAnim EXCEPT !.op = "anim_stop", !.prev = lastAnim.op,
                                  !.before = caller.before, !.after = Fields,
                                  !.joined = TRUE, !.timedout = TRUE, !.warned = TRUE]
    /\ abandoned' = abandoned \cup {thread}
    /\ UNCHANGED <<running, exit, thread, threads, events, tween>>

\* loop(), line 48: self.exit = threading.Event(), a new Event that is not set
LoopNewExit(t) ==
    /\ threads[t] = "start"
    /\ exit' = t
    /\ threads' = [threads EXCEPT ![t] = "check"]
    /\ UNCHANGED <<running, thread, events, tween, caller, lastAnim, abandoned>>

\* line 49: while not self.exit.is_set()
LoopCheck(t) ==
    /\ threads[t] = "check"
    /\ threads' = [threads EXCEPT ![t] = IF is_set(exit, events) THEN "done" ELSE "animate"]
    /\ UNCHANGED <<running, exit, thread, events, tween, caller, lastAnim, abandoned>>

\* line 50: animate()
LoopAnimate(t) ==
    /\ threads[t] = "animate"
    /\ tween < MaxTween
    /\ tween' = tween + 1
    /\ threads' = [threads EXCEPT ![t] = "render"]
    /\ UNCHANGED <<running, exit, thread, events, caller, lastAnim, abandoned>>

\* line 51: self.button.render()
LoopRender(t) ==
    /\ threads[t] = "render"
    /\ threads' = [threads EXCEPT ![t] = "wait"]
    /\ UNCHANGED <<running, exit, thread, events, tween, caller, lastAnim, abandoned>>

\* line 52: self.exit.wait(self.speed) returns when the Event is set or the
\* period has passed
LoopWait(t) ==
    /\ threads[t] = "wait"
    /\ threads' = [threads EXCEPT ![t] = "check"]
    /\ UNCHANGED <<running, exit, thread, events, tween, caller, lastAnim, abandoned>>

\* what the last render() call found and was given
NoRender == [op |-> "init", valid |-> FALSE, should_run |-> FALSE, before |-> <<>>]

RenderInit == rendering = NoRender

\* lines 113-121: what render() does to the loop
\* faulty variant: the loop is started whatever should_run() returns
render_branch_ignores_predicate(valid, should_run, r) ==
    IF valid /\ ~truthy(r) THEN "anim_start" ELSE "none"

render_branch(valid, should_run, r) ==
    IF valid /\ should_run /\ ~truthy(r) THEN "anim_start"
    ELSE IF valid /\ ~should_run /\ truthy(r) THEN "anim_stop"
    ELSE "none"

\* render(), lines 113-123, up to the join of anim_stop(): is_valid() and
\* should_run() are the owner's; the icon returned is not modelled
Render ==
    /\ caller.pc = "idle"
    /\ \E valid \in BOOLEAN, should_run \in BOOLEAN :
        /\ rendering' = [op |-> "render", valid |-> valid, should_run |-> should_run,
                         before |-> Fields]
        /\ IF render_branch(valid, should_run, running) = "anim_start" THEN AnimStart
           ELSE IF render_branch(valid, should_run, running) = "anim_stop" THEN AnimStop
           ELSE UNCHANGED animVars

----------------------------------------------------------------------------
(* The animations that poll the running flag: IconAnimation,
   AnnunciatorAnimate, AnnunciatorButtonAnimate *)

\* button_representation.py lines 461-464: thread None, running False (None in
\* AnnunciatorAnimate, line 480), finished None; Events are numbered by the
\* thread that created them, 0 is None
PollInit ==
    /\ poll = [running |-> "False", finished |-> 0, thread |-> 0, events |-> {}, exc |-> "none"]
    /\ poll_threads = <<>>
    /\ poll_caller = [pc |-> "idle", waits_on |-> 0]

\* the positions of a loop thread inside the while of loop()
InLoopBody(pc) == pc \in {"render", "sleep"}

\* the loop threads that are executing the body of the render loop
PollLooping == {t \in 1..Len(poll_threads) : InLoopBody(poll_threads[t])}

\* anim_start(), lines 486-492
PollAnimStart ==
    /\ poll_caller.pc = "idle"
    /\ IF ~truthy(poll.running)
       THEN /\ Len(poll_threads) < MaxPollThreads
            /\ poll' = [poll EXCEPT !.running = "True", !.thread = Len(poll_threads) + 1,
                                    !.exc = "none"]
            /\ poll_threads' = Append(poll_threads, "start")
       ELSE /\ poll' = [poll EXCEPT !.exc = "none"]
            /\ UNCHANGED poll_threads
    /\ UNCHANGED poll_caller

\* anim_stop(), lines 498-500: running is cleared, then the wait on the Event
\* self.finished refers to begins; on None the call raises AttributeError
PollAnimStop ==
    /\ poll_caller.pc = "idle"
    /\ IF ~truthy(poll.running)
       THEN /\ poll' = [poll EXCEPT !.exc = "none"]
            /\ UNCHANGED poll_caller
       ELSE IF poll.finished = 0
       THEN /\ poll' = [poll EXCEPT !.running = "False", !.exc = "AttributeError"]
            /\ UNCHANGED poll_caller
       ELSE /\ poll' = [poll EXCEPT !.running = "False", !.exc = "none"]
            /\ poll_caller' = [pc |-> "waiting", waits_on |-> poll.finished]
    /\ UNCHANGED poll_threads

\* lines 500-502: the wait returns True, the Event has been set; the render
\* that follows draws the icon of the stopped animation
PollStopFinished ==
    /\ poll_caller.pc = "waiting"
    /\ poll_caller.waits_on \in poll.events
    /\ poll_caller' = [pc |-> "idle", waits_on |-> 0]
    /\ UNCHANGED <<poll, poll_threads>>

\* lines 500-502: twice the period has passed and the Event is not set (one
\* render of the loop may take any time): a warning, and the call goes on
PollStopTimeout ==
    /\ poll_caller.pc = "waiting"
    /\ poll_caller.waits_on \notin poll.events
    /\ poll_caller' = [pc |-> "idle", waits_on |-> 0]
    /\ UNCHANGED <<poll, poll_threads>>

\* loop(), line 467: self.finished = threading.Event()
PollLoopNewFinished(t) ==
    /\ poll_threads[t] = "start"
    /\ poll' = [poll EXCEPT !.finished = t]
    /\ poll_threads' = [poll_threads EXCEPT ![t] = "test"]
    /\ UNCHANGED poll_caller

\* line 468: while self.running
PollLoopTest(t) ==
    /\ poll_threads[t] = "test"
    /\ poll_threads' = [poll_threads EXCEPT ![t] = IF truthy(poll.running) THEN "render"
                                                   ELSE "set"]
    /\ UNCHANGED <<poll, poll_caller>>

\* lines 469-471: self.button.render() and the counter
PollLoopRender(t) ==
    /\ poll_threads[t] = "render"
    /\ poll_threads' = [poll_threads EXCEPT ![t] = "sleep"]
    /\ UNCHANGED <<poll, poll_caller>>

\* line 472: time.sleep(self.speed)
PollLoopSleep(t) ==
    /\ poll_threads[t] = "sleep"
    /\ poll_threads' = [poll_threads EXCEPT ![t] = "test"]
    /\ UNCHANGED <<poll, poll_caller>>

\* line 473: self.finished.set(), on the Event self.finished refers to then
PollLoopSetFinished(t) ==
    /\ poll_threads[t] = "set"
    /\ poll' = [poll EXCEPT !.events = @ \cup {poll.finished}]
    /\ poll_threads' = [poll_threads EXCEPT ![t] = "done"]
    /\ UNCHANGED poll_caller

----------------------------------------------------------------------------
(* Deck: the pages of the decks and the monitor counts of their datarefs *)

DeckNames == {"deck1", "deck2"}

\* Page.datarefs of the pages every deck has loaded: the paths of a page
PageDatarefs ==
    [index |-> <<"a/b", "data:x">>, radio |-> <<"a/b", "c/d">>]

\* deck.py lines 58-62 and 213: pages loaded, no page installed yet
home_page == "index"
NoPage == "none"
DeckFields ==
    [current_page |-> NoPage, previous_page |-> NoPage, page_history |-> <<>>,
     loaded |-> FALSE]

DecksInit == decks = [d \in DeckNames |-> DeckFields]

\* the names change_page() is called with: two pages, "back", an unknown name
PageArgs == {"index", "radio", "back", "nowhere"}

\* change_page(page), lines 283-309, on a deck and the monitor counts mon: the
\* deck and the counts afterwards.  loaded records that the current page has
\* been installed and not been unloaded by terminate() since
change_page(deck, mon, page) ==
    LET hist == deck.page_history
        back == page = "back"
        target == IF back
                  THEN IF Len(hist) > 1 THEN hist[Len(hist) - 1] ELSE home_page
                  ELSE page
        hist1 == IF back /\ Len(hist) > 1 THEN SubSeq(hist, 1, Len(hist) - 2) ELSE hist
    IN  IF target \in DOMAIN PageDatarefs
        THEN LET mon1 == IF deck.current_page # NoPage
                         THEN remove_datarefs_to_monitor(mon, PageDatarefs[deck.current_page])
                         ELSE mon
             IN  [deck |-> [current_page |-> target, previous_page |-> deck.current_page,
                            page_history |-> Append(hist1, target), loaded |-> TRUE],
                  mon |-> add_datarefs_to_monitor(mon1, PageDatarefs[target]),
                  returns |-> target]
        ELSE [deck |-> [deck EXCEPT !.page_history = hist1], mon |-> mon,
              returns |-> deck.current_page]

\* terminate(), lines 322-326: current_page is left as it is
terminate(deck, mon) ==
    IF deck.current_page # NoPage
    THEN [deck |-> [deck EXCEPT !.loaded = FALSE],
          mon |-> remove_datarefs_to_monitor(mon, PageDatarefs[deck.current_page])]
    ELSE [deck |-> deck, mon |-> mon]

ChangePage ==
    \E d \in DeckNames, page \in PageArgs :
        LET r == change_page(decks[d], datarefs_to_monitor, page)
        IN  /\ Len(r.deck.page_history) <= MaxHistory
            /\ decks' = [decks EXCEPT ![d] = r.deck]
            /\ datarefs_to_monitor' = r.mon

Terminate ==
    \E d \in DeckNames :
        LET r == terminate(decks[d], datarefs_to_monitor)
        IN  /\ decks' = [decks EXCEPT ![d] = r.deck]
            /\ datarefs_to_monitor' = r.mon

----------------------------------------------------------------------------
(* LoupedeckLive: the serial transport, framing and dispatch *)

magicByte == 130
MAX_TRANSACTIONS == 256

\* Python s[i:j] of a sequence, 0 <= i: the slice ends at the end of s at most
slice(s, i, j) == SubSeq(s, i + 1, IF j < Len(s) THEN j ELSE Len(s))

\* lines 161-171: the length byte and the bytes it announces are in the buffer
\* faulty variant: the length byte is enough
frame_complete_length_byte_only(buffer, position) == Len(buffer) >= position + 2

frame_complete(buffer, position) ==
    /\ Len(buffer) >= position + 2
    /\ Len(buffer) >= position + buffer[position + 2] + 2

\* line 174: the payload, without the magic byte and the length byte
\* faulty variant: the payload is taken from the start of the buffer
message_from_start(buffer, position, expectedEnd) == slice(buffer, 2, expectedEnd)

message(buffer, position, expectedEnd) == slice(buffer, position + 2, expectedEnd)

\* the while loop of lines 156-176 on the buffer; msgs are the messages put
RECURSIVE parser_scan(_, _)
parser_scan(buffer, msgs) ==
    LET position == find(buffer, magicByte)
    IN  IF position = -1 \/ ~frame_complete(buffer, position)
        THEN [buffer |-> buffer, put |-> msgs]
        ELSE LET nextLength == buffer[position + 2]
                 expectedEnd == position + nextLength + 2
             IN  parser_scan(slice(buffer, expectedEnd, Len(buffer)),
                             Append(msgs, message(buffer, position, expectedEnd)))

\* faulty variant: one message at most is taken from the buffer per call
parse_one_message(buffer, chunk) ==
    LET b == buffer \o chunk
        position == find(b, magicByte)
    IN  IF position = -1 \/ ~frame_complete(b, position)
        THEN [buffer |-> b, put |-> <<>>]
        ELSE [buffer |-> slice(b, position + b[position + 2] + 2, Len(b)),
              put |-> << slice(b, position + 2, position + b[position + 2] + 2) >>]

\* magic_byte_length_parser(chunk): the buffer left and the messages put
magic_byte_length_parser(buffer, chunk) == parser_scan(buffer \o chunk, <<>>)

\* the bare except of lines 185 and 210 catches every exception
\* faulty variant: only lookup errors are caught
caught_lookup_only(exc) == exc \in {"IndexError", "KeyError"}

caught(exc) == TRUE

\* Queue.get() of line 197: the oldest message
\* faulty variant: the newest message
queue_get_newest(q) == [item |-> q[Len(q)], rest |-> SubSeq(q, 1, Len(q) - 1)]

queue_get(q) == [item |-> Head(q), rest |-> Tail(q)]

\* what the handler table and the handler do with a message: no handler for
\* its header, a handler that returns a decoded response, a handler that raises
HandlerOutcomes == {"no_handler", "returns", "raises"}

\* lines 322-324
on_default_callback(pending, transaction_id_) == DictSet(pending, transaction_id_, None)

\* lines 199-209 for one message: the pending map afterwards, the callback
\* invoked, the response handed to it and the exception raised.  An entry of
\* the pending map is the action code do_action stored, an int: calling it
\* raises TypeError.
process_message(buff, outcome, pending) ==
    IF Len(buff) < 3
    THEN [pending |-> pending, invoked |-> "none", response |-> "none", exc |-> "IndexError"]
    ELSE IF outcome = "raises"
    THEN [pending |-> pending, invoked |-> "none", response |-> "none", exc |-> "HandlerError"]
    ELSE LET tid == buff[3]
             response == IF outcome = "returns" THEN "decoded" ELSE "buff"
             resolver == IF tid \in DOMAIN pending THEN pending[tid] ELSE None
         IN  IF resolver # None
             THEN [pending |-> pending, invoked |-> "none", response |-> response,
                   exc |-> "TypeError"]
             ELSE [pending |-> on_default_callback(pending, tid), invoked |-> "default",
                   response |-> response, exc |-> "none"]

\* int.to_bytes(4, "big")
to_bytes4(n) == << (n \div 16777216) % 256, (n \div 65536) % 256, (n \div 256) % 256, n % 256 >>

Zeros(n) == [i \in 1..n |-> 0]

\* send(buff, raw), lines 100-117, for a buffer of n bytes: the writes made on
\* the connection and the exception raised; a bytearray item must be in 0..255
send(buff, raw) ==
    LET n == Len(buff)
    IN  IF raw THEN [writes |-> << buff >>, exc |-> "none"]
        ELSE IF n > 128
        THEN [writes |-> << <<130, 255>> \o Zeros(4) \o to_bytes4(n) \o Zeros(4), buff >>,
              exc |-> "none"]
        ELSE IF 128 + n > 255
        THEN [writes |-> <<>>, exc |-> "ValueError"]
        ELSE [writes |-> << <<130, 128 + n>> \o Zeros(4), buff >>, exc |-> "none"]

\* lines 229-231
next_transaction_id(t) ==
    IF (t + 1) % MAX_TRANSACTIONS = 0 THEN ((t + 1) % MAX_TRANSACTIONS) + 1
    ELSE (t + 1) % MAX_TRANSACTIONS

\* the request codes do_action is called with, as ints
Actions == {IntOf(1), IntOf(2)}

\* the two bytes of an action code and the transaction id, lines 232-237
request(action, tid, data) == <<0, action[2], tid>> \o data

NoRead == [before |-> <<>>, chunk |-> <<>>, put |-> <<>>, exc |-> "none"]
NoDispatch == [buff |-> <<>>, outcome |-> "none", before |-> EmptyDict, after |-> EmptyDict,
               invoked |-> "none", response |-> "none", exc |-> "none"]

\* the fields of a Loupedeck before init(): nothing received, nothing pending
LoupedeckFields ==
    [_buffer |-> <<>>, _messages |-> <<>>, pendingTransactions |-> EmptyDict,
     transaction_id |-> 0]

\* info(), lines 76-81: two tracked requests, made by do_action
InfoRequests ==
    LET first == next_transaction_id(LoupedeckFields.transaction_id)
        second == next_transaction_id(first)
        pending1 == DictSet(LoupedeckFields.pendingTransactions, first, IntOf(1))
    IN  [transaction_id |-> second,
         pendingTransactions |-> DictSet(pending1, second, IntOf(2)),
         lastDo |-> [id |-> second, prev |-> first, track |-> TRUE, before |-> pending1],
         lastSend |-> [buff |-> request(IntOf(2), second, <<>>), raw |-> FALSE,
                       writes |-> send(request(IntOf(2), second, <<>>), FALSE).writes,
                       exc |-> "none"]]

\* the connection after LoupedeckLive(path): init_ws() has set inited, start()
\* has created the two threads, info() has sent its requests
TransportInit ==
    /\ wire = <<>>
    /\ consumed = <<>>
    /\ sent = [garbage |-> <<>>, frames |-> <<>>]
    /\ _buffer = LoupedeckFields._buffer
    /\ _messages = LoupedeckFields._messages
    /\ put = <<>>
    /\ handled = <<>>
    /\ lastRead = NoRead
    /\ lastDispatch = NoDispatch
    /\ pendingTransactions = InfoRequests.pendingTransactions
    /\ transaction_id = InfoRequests.transaction_id
    /\ lastDo = InfoRequests.lastDo
    /\ lastSend = InfoRequests.lastSend
    /\ inited = TRUE
    /\ ld_running = TRUE
    /\ readers = 1
    /\ dispatchers = 1
    /\ stopping = FALSE

\* the device sends one byte that is not announced as part of a frame
DeviceSendsByte(bytes) ==
    /\ sent.frames = <<>>
    /\ Len(sent.garbage) < MaxStream
    /\ \E b \in bytes :
        /\ wire' = Append(wire, b)
        /\ sent' = [sent EXCEPT !.garbage = Append(sent.garbage, b)]
    /\ UNCHANGED <<consumed, _buffer, _messages, put, handled, lastRead, lastDispatch>>

\* a frame: the magic byte, the length byte, the payload
Frame(payload) == <<magicByte, Len(payload)>> \o payload

\* the device sends a well-formed frame
DeviceSendsFrame(payloads, maxFrames) ==
    /\ Len(sent.frames) < maxFrames
    /\ \E payload \in payloads :
        /\ wire' = wire \o Frame(payload)
        /\ sent' = [sent EXCEPT !.frames = Append(sent.frames, payload)]
    /\ UNCHANGED <<consumed, _buffer, _messages, put, handled, lastRead, lastDispatch>>

\* the sizes of what connection.read() returns (pyserial's default is one byte)
ChunkSizes(w) == {k \in {1, 2, Len(w)} : k >= 1 /\ k <= Len(w)}

\* lines 182-184: a reader thread reads a chunk and runs the parser on it
Read ==
    /\ readers >= 1
    /\ ld_running
    /\ wire # <<>>
    /\ \E k \in ChunkSizes(wire) :
        LET chunk == SubSeq(wire, 1, k)
            r == magic_byte_length_parser(_buffer, chunk)
        IN  /\ wire' = SubSeq(wire, k + 1, Len(wire))
            /\ consumed' = consumed \o chunk
            /\ _buffer' = r.buffer
            /\ _messages' = _messages \o r.put
            /\ put' = put \o r.put
            /\ lastRead' = [before |-> _buffer, chunk |-> chunk, put |-> r.put, exc |-> "none"]
    /\ UNCHANGED <<sent, handled, lastDispatch, readers>>

\* lines 182 and 185-187: connection.read() raises
ReadFails ==
    /\ readers >= 1
    /\ ld_running
    /\ lastRead' = [before |-> _buffer, chunk |-> <<>>, put |-> <<>>, exc |-> "SerialException"]
    /\ readers' = IF caught("SerialException") THEN readers ELSE readers - 1
    /\ UNCHANGED <<wire, consumed, sent, _buffer, _messages, put, handled, lastDispatch>>

\* lines 196-212: a dispatcher thread takes one message and dispatches it
ProcessMessage ==
    /\ dispatchers >= 1
    /\ _messages # <<>>
    /\ \E outcome \in HandlerOutcomes :
        LET got == queue_get(_messages)
            r == process_message(got.item, outcome, pendingTransactions)
        IN  /\ _messages' = got.rest
            /\ handled' = Append(handled, got.item)
            /\ pendingTransactions' = r.pending
            /\ lastDispatch' = [buff |-> got.item, outcome |-> outcome,
                                before |-> pendingTransactions, after |-> r.pending,
                                invoked |-> r.invoked,
                                response |-> r.response, exc |-> r.exc]
            /\ dispatchers' = IF r.exc = "none" \/ caught(r.exc)
                              THEN dispatchers ELSE dispatchers - 1
    /\ UNCHANGED <<wire, consumed, sent, _buffer, put, lastRead>>

\* do_action(action, data, track), lines 219-242
DoAction(tracked) ==
    /\ inited
    /\ \E action \in Actions, data \in {<<>>, <<7>>}, track \in BOOLEAN :
        LET tid == next_transaction_id(transaction_id)
            payload == request(action, tid, data)
            w == send(payload, FALSE)
        IN  /\ track => tid \in tracked
            /\ transaction_id' = tid
            /\ pendingTransactions' = IF track THEN DictSet(pendingTransactions, tid, action)
                                      ELSE pendingTransactions
            /\ lastDo' = [id |-> tid, prev |-> transaction_id, track |-> track,
                          before |-> pendingTransactions]
            /\ lastSend' = [buff |-> payload, raw |-> FALSE, writes |-> w.writes, exc |-> w.exc]

\* send(buff, raw) called on its own
Send(sizes) ==
    \E n \in sizes, raw \in BOOLEAN :
        LET w == send(Zeros(n), raw)
        IN  lastSend' = [buff |-> Zeros(n), raw |-> raw, writes |-> w.writes, exc |-> w.exc]

\* start(), lines 123-131
LdStart ==
    /\ ~stopping
    /\ IF inited
       THEN /\ readers < MaxUnits
            /\ dispatchers < MaxUnits
            /\ readers' = readers + 1
            /\ dispatchers' = dispatchers + 1
            /\ ld_running' = TRUE
       ELSE UNCHANGED <<readers, dispatchers, ld_running>>
    /\ UNCHANGED <<inited, stopping>>

\* the process besides the connection: the main thread, the background
\* threads of other objects (animation loops, the reader of another
\* connection) that are alive, and, during a stop(), the thread that called
\* it and the other threads threading.enumerate() returned to it (line 135)
ProcessInit ==
    process = [main_alive |-> TRUE, others |-> 0, stop_caller |-> "none", joins |-> 0]

\* a background thread of another object is started
OtherUnitStarts ==
    /\ process.others < MaxOthers
    /\ process' = [process EXCEPT !.others = @ + 1]

\* a background thread of another object ends: one that a stop() is joining,
\* or one started after the stop() was called
OtherUnitEnds ==
    /\ process.others > 0
    /\ \/ /\ process.joins > 0
          /\ process' = [process EXCEPT !.others = @ - 1, !.joins = @ - 1]
       \/ /\ process.others > process.joins
          /\ process' = [process EXCEPT !.others = @ - 1]

\* the main thread ends, unless it is inside stop()
MainThreadEnds ==
    /\ process.main_alive
    /\ ~(stopping /\ process.stop_caller = "main")
    /\ process' = [process EXCEPT !.main_alive = FALSE]

\* stop(), lines 134-135, called by the main thread or by a background
\* thread: running is cleared and the threads alive are enumerated
LdStop(callers) ==
    /\ ~stopping
    /\ \E c \in callers :
        /\ c = "main" => process.main_alive
        /\ process' = [process EXCEPT !.stop_caller = c, !.joins = process.others]
    /\ ld_running' = FALSE
    /\ stopping' = TRUE
    /\ UNCHANGED <<inited, readers, dispatchers>>

\* line 180: a reader finds running false and ends
ReaderExit ==
    /\ readers >= 1
    /\ ~ld_running
    /\ readers' = readers - 1
    /\ UNCHANGED <<inited, ld_running, dispatchers, stopping>>

\* line 195: a dispatcher finds running false and ends
DispatcherExit ==
    /\ dispatchers >= 1
    /\ ~ld_running
    /\ dispatchers' = dispatchers - 1
    /\ UNCHANGED <<inited, ld_running, readers, stopping>>

\* lines 135-139: every join has returned, the threads of the connection,
\* the other threads enumerated and the main thread have ended; the join of
\* the calling thread itself raises RuntimeError, which is passed over
LdStopReturn ==
    /\ stopping
    /\ readers = 0
    /\ dispatchers = 0
    /\ process.joins = 0
    /\ process.stop_caller = "main" \/ ~process.main_alive
    /\ stopping' = FALSE
    /\ process' = [process EXCEPT !.stop_caller = "none"]
    /\ UNCHANGED <<inited, ld_running, readers, dispatchers>>

----------------------------------------------------------------------------
(* Specifications *)

Init ==
    /\ ValueInit /\ RegistryInit /\ ThreadInit /\ fired = <<>> /\ ObjectInit /\ AnimInit
    /\ TransportInit
    /\ RenderInit
    /\ PollInit
    /\ DecksInit
    /\ ProcessInit

IsChanged(e) == e.kind = "dataref_changed"
IsUpdated(e) == e.kind = "dataref_updated"

\* the registry with its change detector
Next ==
    \/ Register(ExternalPaths) /\ lastOp' = Op("other")
         /\ UNCHANGED <<valueVars, threadVars, fired, objectVars, animVars, transportVars, deckVars>>
    \/ AddListener({"L1"}) /\ lastOp' = Op("other")
         /\ UNCHANGED <<valueVars, threadVars, fired, objectVars, animVars, transportVars, deckVars>>
    \/ AddDatarefsToMonitor(SingleDatarefs, FALSE)
         /\ UNCHANGED <<valueVars, threadVars, fired, objectVars, animVars, transportVars, deckVars>>
    \/ RemoveDatarefsToMonitor(SingleDatarefs, FALSE)
         /\ UNCHANGED <<valueVars, threadVars, fired, objectVars, animVars, transportVars, deckVars>>
    \/ ReceiveSnapshot(Snapshots) /\ lastOp' = Op("other")
         /\ UNCHANGED <<valueVars, threadVars, fired, objectVars, animVars, transportVars, deckVars>>
    \/ DetectChanged(MaxPasses, {})
         /\ UNCHANGED <<valueVars, threadVars, fired, objectVars, animVars, transportVars, deckVars>>

Spec == Init /\ [][Next]_vars

\* one path and one listener, whose callbacks may raise: successive snapshots
\* and passes
ScenarioSnapshots == {<< <<"a/b", v>> >> : v \in SnapValues}

ScenarioNext ==
    \/ Register({"a/b"}) /\ lastOp' = Op("other")
         /\ UNCHANGED <<valueVars, threadVars, fired, objectVars, animVars, transportVars, deckVars>>
    \/ AddListener({"L1"}) /\ lastOp' = Op("other")
         /\ UNCHANGED <<valueVars, threadVars, fired, objectVars, animVars, transportVars, deckVars>>
    \/ AddDatarefsToMonitor({<<"a/b">>}, FALSE)
         /\ UNCHANGED <<valueVars, threadVars, fired, objectVars, animVars, transportVars, deckVars>>
    \/ RemoveDatarefsToMonitor({<<"a/b">>}, FALSE)
         /\ UNCHANGED <<valueVars, threadVars, fired, objectVars, animVars, transportVars, deckVars>>
    \/ ReceiveSnapshot(ScenarioSnapshots) /\ lastOp' = Op("other")
         /\ UNCHANGED <<valueVars, threadVars, fired, objectVars, animVars, transportVars, deckVars>>
    \/ DetectChanged(MaxScenarioPasses, ExcKinds)
         /\ fired' = Append(fired, SelectSeq(lastOp'.calls, IsChanged))
         /\ UNCHANGED <<valueVars, threadVars, objectVars, animVars, transportVars, deckVars>>

SpecScenario == Init /\ [][ScenarioNext]_vars

\* the monitor set and the all-values map
MonitorNext ==
    \/ Register(Paths) /\ lastOp' = Op("register")
         /\ UNCHANGED <<valueVars, threadVars, fired, objectVars, animVars, transportVars, deckVars>>
    \/ AddDatarefsToMonitor(DatarefLists, TRUE)
         /\ UNCHANGED <<valueVars, threadVars, fired, objectVars, animVars, transportVars, deckVars>>
    \/ RemoveDatarefsToMonitor(DatarefLists, TRUE)
         /\ UNCHANGED <<valueVars, threadVars, fired, objectVars, animVars, transportVars, deckVars>>
    \/ CleanDatarefsToMonitor /\ lastOp' = Op("clean_datarefs_to_monitor")
         /\ UNCHANGED <<valueVars, threadVars, fired, objectVars, animVars, transportVars, deckVars>>
    \/ RemoveAllDatarefs /\ lastOp' = Op("remove_all_datarefs")
         /\ UNCHANGED <<valueVars, threadVars, fired, objectVars, animVars, transportVars, deckVars>>

SpecMonitor == Init /\ [][MonitorNext]_vars

\* a Dataref used on its own
ValueNext ==
    \/ DrefSetRound
         /\ UNCHANGED <<registryVars, observerVars, threadVars, fired, objectVars, animVars, transportVars, deckVars>>
    \/ DrefAddListener
         /\ UNCHANGED <<registryVars, observerVars, threadVars, fired, objectVars, animVars, transportVars, deckVars>>
    \/ DrefUpdateValue
         /\ UNCHANGED <<registryVars, observerVars, threadVars, fired, objectVars, animVars, transportVars, deckVars>>

SpecValue == Init /\ [][ValueNext]_vars

\* a Dataref and the objects registered on it as listeners
ListenerNext ==
    \/ DrefAddObject
         /\ UNCHANGED <<registryVars, observerVars, threadVars, fired, made, animVars, transportVars, deckVars>>
    \/ DrefUpdateObjects
         /\ UNCHANGED <<registryVars, observerVars, threadVars, fired, made, animVars, transportVars, deckVars>>

SpecListener == Init /\ [][ListenerNext]_vars

\* the constructor of Dataref over paths with and without a type suffix
ConstructNext ==
    Construct(BasePaths, Suffixes \cup {"none"}, Flags, Flags)
        /\ UNCHANGED <<valueVars, registryVars, observerVars, threadVars, fired, added,
                       animVars, transportVars, deckVars>>

SpecConstruct == Init /\ [][ConstructNext]_vars

\* constructed Datarefs handed to register()
RegisterNext ==
    \/ Construct({"", "a/b"}, {"none", "d"}, Flags, {"False"})
         /\ UNCHANGED <<valueVars, registryVars, observerVars, threadVars, fired, added,
                        animVars, transportVars, deckVars>>
    \/ RegisterMade
         /\ UNCHANGED <<valueVars, threadVars, fired, objectVars, animVars, transportVars, deckVars>>

SpecRegister == Init /\ [][RegisterNext]_vars

\* an animation: the thread that starts and stops it, and its loop threads
AnimationNext ==
    \/ AnimStart
         /\ UNCHANGED <<valueVars, registryVars, observerVars, threadVars, fired, objectVars, transportVars, deckVars>>
    \/ AnimStop
         /\ UNCHANGED <<valueVars, registryVars, observerVars, threadVars, fired, objectVars, transportVars, deckVars>>
    \/ AnimStopJoined
         /\ UNCHANGED <<valueVars, registryVars, observerVars, threadVars, fired, objectVars, transportVars, deckVars>>
    \/ AnimStopTimeout
         /\ UNCHANGED <<valueVars, registryVars, observerVars, threadVars, fired, objectVars, transportVars, deckVars>>
    \/ \E t \in 1..Len(threads) :
         /\ \/ LoopNewExit(t)
            \/ LoopCheck(t)
            \/ LoopAnimate(t)
            \/ LoopRender(t)
            \/ LoopWait(t)
         /\ UNCHANGED <<valueVars, registryVars, observerVars, threadVars, fired, objectVars, transportVars, deckVars>>

SpecAnimation == Init /\ [][AnimationNext]_vars

\* the bytes a device may send outside a frame, and the payloads of its frames
StreamBytes == {130, 0, 1}
SmallPayloads == {<<>>, <<7>>, <<130, 1>>}
BoundaryPayloads == {Zeros(127), Zeros(128)}

\* the reader thread against a device that sends bytes, then one frame
FramingNext ==
    \/ DeviceSendsByte(StreamBytes)
         /\ UNCHANGED <<simulatorVars, transactionVars, unitVars>>
    \/ DeviceSendsFrame(SmallPayloads, 1)
         /\ UNCHANGED <<simulatorVars, transactionVars, unitVars>>
    \/ sent.garbage = <<>> /\ DeviceSendsFrame(BoundaryPayloads, 1)
         /\ UNCHANGED <<simulatorVars, transactionVars, unitVars>>
    \/ Read
         /\ UNCHANGED <<simulatorVars, transactionVars, inited, ld_running, dispatchers, stopping>>

SpecFraming == Init /\ [][FramingNext]_vars

\* responses: too short for a transaction id, to the pending request 1, to no
\* request, and one whose transaction id is the magic byte
Responses == {<<5>>, <<5, 0, 1>>, <<5, 0, 9>>, <<5, 0, 130>>}

\* a step of the dispatcher thread
DispatcherStep ==
    /\ ProcessMessage
    /\ UNCHANGED <<simulatorVars, transaction_id, lastDo, lastSend,
                   inited, ld_running, readers, stopping>>

\* the reader and the dispatcher threads against a device that sends frames
DispatchNext ==
    \/ DeviceSendsFrame(Responses, MaxFrames)
         /\ UNCHANGED <<simulatorVars, transactionVars, unitVars>>
    \/ Read
         /\ UNCHANGED <<simulatorVars, transactionVars, inited, ld_running, dispatchers, stopping>>
    \/ ReadFails
         /\ UNCHANGED <<simulatorVars, transactionVars, inited, ld_running, dispatchers, stopping>>
    \/ DispatcherStep

SpecDispatch == Init /\ [][DispatchNext]_vars

\* the threads are scheduled: a message on the queue is taken eventually
SpecDispatchFair == Init /\ [][DispatchNext]_vars /\ WF_vars(DispatcherStep)

\* the transaction ids a tracked request is made with
TrackedIds == {1, 3}

\* requests made one after the other, none of them answered
TransactionsNext ==
    DoAction(TrackedIds) /\ UNCHANGED <<simulatorVars, framingVars, unitVars>>

SpecTransactions == Init /\ [][TransactionsNext]_vars

\* payload sizes around the boundary between the two headers
SendSizes == {0, 1, 3, 127, 128, 129, 255, 256, 4660}

\* start(), stop() and send() called on the connection, and its threads
ConnectionNext ==
    \/ Send(SendSizes)
         /\ UNCHANGED <<simulatorVars, framingVars, pendingTransactions, transaction_id,
                        lastDo, unitVars>>
    \/ LdStart /\ UNCHANGED <<simulatorVars, framingVars, transactionVars>>
    \/ LdStop({"main"}) /\ UNCHANGED <<StopFrame, framingVars, transactionVars>>
    \/ ReaderExit /\ UNCHANGED <<simulatorVars, framingVars, transactionVars>>
    \/ DispatcherExit /\ UNCHANGED <<simulatorVars, framingVars, transactionVars>>
    \/ LdStopReturn /\ UNCHANGED <<StopFrame, framingVars, transactionVars>>

SpecConnection == Init /\ [][ConnectionNext]_vars


\* snapshots of one or two paths, in either order
PassSnapshots ==
    { << <<"a/b", Num(10)>> >>,
      << <<"a/b", Num(10)>>, <<"c/d", Num(20)>> >>,
      << <<"c/d", Num(10)>>, <<"a/b", Num(20)>> >> }

\* a detection pass, item by item, on a registry filled between the passes
PassNext ==
    \/ detector.pc = "idle" /\ Register(ExternalPaths)
         /\ UNCHANGED <<valueVars, threadVars, lastOp, fired, objectVars, animVars, transportVars, deckVars>>
    \/ detector.pc = "idle" /\ AddListener({"L1"})
         /\ UNCHANGED <<valueVars, threadVars, lastOp, fired, objectVars, animVars, transportVars, deckVars>>
    \/ detector.pc = "idle" /\ AddDatarefsToMonitor({<<"a/b">>}, FALSE)
         /\ UNCHANGED <<valueVars, threadVars, fired, objectVars, animVars, transportVars, deckVars>>
    \/ detector.pc = "idle" /\ ReceiveSnapshot(PassSnapshots)
         /\ UNCHANGED <<valueVars, threadVars, lastOp, fired, objectVars, animVars, transportVars, deckVars>>
    \/ DetectLockCopy /\ UNCHANGED <<valueVars, fired, objectVars, animVars, transportVars, deckVars>>
    \/ DetectRelease /\ UNCHANGED <<valueVars, fired, objectVars, animVars, transportVars, deckVars>>
    \/ DetectStep /\ UNCHANGED <<valueVars, fired, objectVars, animVars, transportVars, deckVars>>
    \/ DetectReturn /\ UNCHANGED <<valueVars, fired, objectVars, animVars, transportVars, deckVars>>

SpecPass == Init /\ [][PassNext]_vars

\* a detection pass, item by item, while another thread empties the registry
RaceNext ==
    \/ detector.pc = "idle" /\ Register(ExternalPaths)
         /\ UNCHANGED <<valueVars, threadVars, lastOp, fired, objectVars, animVars, transportVars, deckVars>>
    \/ detector.pc = "idle" /\ AddDatarefsToMonitor({<<"a/b">>}, FALSE)
         /\ UNCHANGED <<valueVars, threadVars, fired, objectVars, animVars, transportVars, deckVars>>
    \/ detector.pc = "idle" /\ ReceiveSnapshot(PassSnapshots)
         /\ UNCHANGED <<valueVars, threadVars, lastOp, fired, objectVars, animVars, transportVars, deckVars>>
    \/ RemoveAllDatarefs
         /\ UNCHANGED <<valueVars, threadVars, lastOp, fired, objectVars, animVars, transportVars, deckVars>>
    \/ CleanDatarefsToMonitor
         /\ UNCHANGED <<valueVars, threadVars, lastOp, fired, objectVars, animVars, transportVars, deckVars>>
    \/ DetectLockCopy /\ UNCHANGED <<valueVars, fired, objectVars, animVars, transportVars, deckVars>>
    \/ DetectRelease /\ UNCHANGED <<valueVars, fired, objectVars, animVars, transportVars, deckVars>>
    \/ DetectStep /\ UNCHANGED <<valueVars, fired, objectVars, animVars, transportVars, deckVars>>
    \/ DetectReturn /\ UNCHANGED <<valueVars, fired, objectVars, animVars, transportVars, deckVars>>

SpecRace == Init /\ [][RaceNext]_vars

\* an animation driven by render() calls, and its loop threads
RenderNext ==
    \/ Render
         /\ UNCHANGED <<valueVars, registryVars, observerVars, threadVars, fired, objectVars,
                        transportVars, pollVars, pageVars, processVars>>
    \/ AnimStopJoined
         /\ UNCHANGED <<valueVars, registryVars, observerVars, threadVars, fired, objectVars,
                        transportVars, deckVars>>
    \/ AnimStopTimeout
         /\ UNCHANGED <<valueVars, registryVars, observerVars, threadVars, fired, objectVars,
                        transportVars, deckVars>>
    \/ \E t \in 1..Len(threads) :
         /\ \/ LoopNewExit(t)
            \/ LoopCheck(t)
            \/ LoopAnimate(t)
            \/ LoopRender(t)
            \/ LoopWait(t)
         /\ UNCHANGED <<valueVars, registryVars, observerVars, threadVars, fired, objectVars,
                        transportVars, deckVars>>

SpecRender == Init /\ [][RenderNext]_vars

\* a polling animation: anim_start() and anim_stop() called one after the
\* other by the owner, and the loop threads
PollNext ==
    \/ PollAnimStart /\ UNCHANGED <<PollFrame, renderVars, pageVars, processVars>>
    \/ PollAnimStop /\ UNCHANGED <<PollFrame, renderVars, pageVars, processVars>>
    \/ PollStopFinished /\ UNCHANGED <<PollFrame, renderVars, pageVars, processVars>>
    \/ PollStopTimeout /\ UNCHANGED <<PollFrame, renderVars, pageVars, processVars>>
    \/ \E t \in 1..Len(poll_threads) :
         /\ \/ PollLoopNewFinished(t)
            \/ PollLoopTest(t)
            \/ PollLoopRender(t)
            \/ PollLoopSleep(t)
            \/ PollLoopSetFinished(t)
         /\ UNCHANGED <<PollFrame, renderVars, pageVars, processVars>>

SpecPoll == Init /\ [][PollNext]_vars

\* decks that share one simulator change page and are terminated
DecksFrame == <<valueVars, all_datarefs, previous_values, current_values, roundings,
                observerVars, threadVars, fired, objectVars, animVars, transportVars,
                renderVars, pollVars, processVars>>

DecksNext ==
    \/ ChangePage /\ UNCHANGED DecksFrame
    \/ Terminate /\ UNCHANGED DecksFrame

SpecDecks == Init /\ [][DecksNext]_vars

\* stop() called by any thread of a process that has other threads
StopUnchanged == <<StopFrame, framingVars, transactionVars>>
LdThreadsExit ==
    (ReaderExit \/ DispatcherExit) /\ UNCHANGED <<simulatorVars, framingVars, transactionVars>>
LdStopReturns == LdStopReturn /\ UNCHANGED StopUnchanged

StopNext ==
    \/ LdStart /\ UNCHANGED <<simulatorVars, framingVars, transactionVars>>
    \/ LdStop({"main", "unit"}) /\ UNCHANGED StopUnchanged
    \/ LdThreadsExit
    \/ LdStopReturns
    \/ OtherUnitStarts /\ UNCHANGED <<StopUnchanged, unitVars>>
    \/ OtherUnitEnds /\ UNCHANGED <<StopUnchanged, unitVars>>
    \/ MainThreadEnds /\ UNCHANGED <<StopUnchanged, unitVars>>

\* the threads of the connection are scheduled, and so is the caller of
\* stop(); nothing makes the other threads of the process end
SpecStop ==
    Init /\ [][StopNext]_vars /\ WF_vars(LdThreadsExit) /\ WF_vars(LdStopReturns)

\* the transport/update thread against a detection pass
ThreadNext ==
    \/ Register(ExternalPaths)
         /\ UNCHANGED <<valueVars, threadVars, lastOp, fired, objectVars, animVars, transportVars, deckVars>>
    \/ WriterAcquire /\ UNCHANGED <<valueVars, fired, objectVars, animVars, transportVars, deckVars>>
    \/ WriterWrite /\ UNCHANGED <<valueVars, fired, objectVars, animVars, transportVars, deckVars>>
    \/ WriterRelease /\ UNCHANGED <<valueVars, fired, objectVars, animVars, transportVars, deckVars>>
    \/ DetectLockCopy /\ UNCHANGED <<valueVars, fired, objectVars, animVars, transportVars, deckVars>>
    \/ DetectRelease /\ UNCHANGED <<valueVars, fired, objectVars, animVars, transportVars, deckVars>>
    \/ DetectStep /\ UNCHANGED <<valueVars, fired, objectVars, animVars, transportVars, deckVars>>
    \/ DetectReturn /\ UNCHANGED <<valueVars, fired, objectVars, animVars, transportVars, deckVars>>

SpecThreads == Init /\ [][ThreadNext]_vars

----------------------------------------------------------------------------
(* Properties *)

\* the dataref_changed / dataref_updated callbacks of a call that concern path p
ChangedCalls(calls, p) == SelectSeq(calls, LAMBDA e : IsChanged(e) /\ e.path = p)
UpdatedCalls(calls) == SelectSeq(calls, IsUpdated)

\* what notify / notify_updated must have called for Dataref d
AllListeners(kind, d) == [i \in 1..Len(d.listeners) |-> Event(kind, d.listeners[i], d)]

ChangedEvent(l, p, cur, prev) ==
    [kind |-> "dataref_changed", listener |-> l, path |-> p,
     current |-> cur, previous |-> prev]

\* C1: for a registered, monitored path with one listener, a detection pass
\* that ends without an exception fires exactly one dataref_changed (current =
\* the snapshot value, previous = None) when no value was seen before, none
\* when the snapshot holds the value already held, and exactly one (previous =
\* the value held, current = the snapshot value) when it holds another value.
C1_ScenarioNotifications ==
    \A p \in ExternalPaths :
        ( /\ lastOp.op = "detect_changed"
          /\ lastOp.exc = "none"
          /\ p \in OKeys(lastOp.arg)
          /\ p \in DOMAIN lastOp.before
          /\ p \in DOMAIN lastOp.monitored
          /\ Len(lastOp.before[p].listeners) = 1 )
        => LET held == lastOp.before[p].current_value
               v == OGet(lastOp.arg, p)
               l == lastOp.before[p].listeners[1]
               chg == ChangedCalls(lastOp.calls, p)
           IN  /\ held = None => chg = << ChangedEvent(l, p, v, None) >>
               /\ held = v => chg = <<>>
               /\ held \notin {None, v} => chg = << ChangedEvent(l, p, v, held) >>

\* C1 witness: the three passes of the scenario were made over 1.0, 1.0, 2.0
\* with count 1 and one listener, and fired one, zero and one dataref_changed.
C1_Witness ==
    /\ lastOp.op = "detect_changed"
    /\ passes = 3
    /\ "a/b" \in DOMAIN all_datarefs
    /\ all_datarefs["a/b"].listeners = <<"L1">>
    /\ "a/b" \in DOMAIN lastOp.monitored
    /\ lastOp.monitored["a/b"] = 1
    /\ fired = << << ChangedEvent("L1", "a/b", Num(10), None) >>,
                  <<>>,
                  << ChangedEvent("L1", "a/b", Num(20), Num(10)) >> >>
    /\ all_datarefs["a/b"]._updated = 3
    /\ all_datarefs["a/b"]._changed = 2

\* C2 (as claimed): a detect_changed() call that directly follows another one,
\* the snapshot not modified in between, makes no listener callback and
\* updates no value.
C2_SecondPassSilent ==
    (lastOp.op = "detect_changed" /\ lastOp.inARow)
        => (lastOp.calls = <<>> /\ all_datarefs = lastOp.before)

\* C3: in a detection pass, a changed snapshot value of a monitored path is
\* applied with cascade (dataref_changed is called on each of its listeners,
\* when the pass ends without an exception), and a changed value of a path
\* that is not monitored is stored without any dataref_changed call.
C3_CascadeOnlyMonitored ==
    lastOp.op = "detect_changed" =>
        \A i \in 1..Len(lastOp.arg) :
            LET d == lastOp.arg[i][1]
                v == lastOp.arg[i][2]
            IN  ( /\ d \in DOMAIN lastOp.before
                  /\ rounded(lastOp.before[d], v) # lastOp.before[d].current_value )
                => /\ (d \in DOMAIN lastOp.monitored /\ lastOp.exc = "none")
                        => ChangedCalls(lastOp.calls, d)
                              = AllListeners("dataref_changed", all_datarefs[d])
                   /\ d \notin DOMAIN lastOp.monitored
                        => /\ ChangedCalls(lastOp.calls, d) = <<>>
                           /\ lastOp.exc = "none"
                                => all_datarefs[d].current_value
                                       = rounded(lastOp.before[d], v)

\* C3 witness: one pass changed a monitored path and a path that is not
\* monitored, both with a listener: only the monitored one was cascaded.
C3_Witness ==
    /\ lastOp.op = "detect_changed"
    /\ lastOp.exc = "none"
    /\ OKeys(lastOp.arg) = {"a/b", "c/d"}
    /\ DOMAIN lastOp.before = {"a/b", "c/d"}
    /\ DOMAIN lastOp.monitored = {"a/b"}
    /\ lastOp.before["a/b"].listeners = <<"L1">>
    /\ lastOp.before["c/d"].listeners = <<"L1">>
    /\ lastOp.before["c/d"].current_value # OGet(lastOp.arg, "c/d")
    /\ all_datarefs["c/d"].current_value = OGet(lastOp.arg, "c/d")
    /\ ChangedCalls(lastOp.calls, "a/b") # <<>>
    /\ ChangedCalls(lastOp.calls, "c/d") = <<>>

\* C4 (as claimed): every path that is a key of the monitor-count map is a
\* key of the all-values map.
C4_MonitoredAreRegistered ==
    DOMAIN datarefs_to_monitor \subseteq DOMAIN all_datarefs

\* C5: a non-internal path is in the monitor set exactly when it was added
\* more often than removed since it was last absent; its count is that
\* difference and never zero or negative; an internal path is never in the
\* set; removing only paths that are not in the set leaves the set unchanged.
C5_ReferenceCounted ==
    /\ \A p \in Paths : (p \in DOMAIN datarefs_to_monitor) <=> (net[p] > 0)
    /\ \A p \in DOMAIN datarefs_to_monitor :
            /\ datarefs_to_monitor[p] = net[p]
            /\ datarefs_to_monitor[p] > 0
            /\ ~is_internal_dataref(p)
    /\ ( /\ lastOp.op = "remove_datarefs_to_monitor"
         /\ \A i \in 1..Len(lastOp.arg) : lastOp.arg[i] \notin DOMAIN lastOp.monitored )
       => (datarefs_to_monitor = lastOp.monitored /\ lastOp.exc = "none")

\* C5 witness: a removal took a count from 1 to 0 and the path is gone, while
\* another path is held with count 2.
C5_Witness ==
    /\ lastOp.op = "remove_datarefs_to_monitor"
    /\ \E p \in ExternalPaths :
        /\ \E i \in 1..Len(lastOp.arg) : lastOp.arg[i] = p
        /\ p \in DOMAIN lastOp.monitored
        /\ lastOp.monitored[p] = 1
        /\ p \notin DOMAIN datarefs_to_monitor
    /\ \E q \in DOMAIN datarefs_to_monitor : datarefs_to_monitor[q] = 2

\* C6 (as claimed): no exception raised inside detect_changed() reaches its
\* caller.
C6_NothingEscapes ==
    lastOp.op = "detect_changed" => lastOp.escaped = "none"

\* a buffer no write is in progress on: every path of one message, or none
CompleteSnapshot(od) ==
    \/ od = <<>>
    \/ /\ OKeys(od) = ExternalPaths
       /\ \A i, j \in 1..Len(od) : od[i][2] = od[j][2]

\* C7: the copy a detection pass works on is never a partially written
\* buffer: the copy is taken while the writer is outside its locked section,
\* and the values a pass stores are those of its copy, whatever the writer
\* does to the buffer meanwhile.
C7_NoPartialSnapshot ==
    /\ detector.pc = "copied" => writer.pc = "idle"
    /\ CompleteSnapshot(detector.currvalues)
    /\ ( /\ detector.pc = "loop"
         /\ detector.exc = "none"
         /\ detector.i > Len(detector.currvalues) )
       => \A i \in 1..Len(detector.currvalues) :
              all_datarefs[detector.currvalues[i][1]].current_value
                  = detector.currvalues[i][2]

\* C7 witness: a pass is working on a complete copy while the writer is in
\* the middle of writing the next message into the buffer.
C7_Witness ==
    /\ detector.pc = "loop"
    /\ detector.i = 2
    /\ Len(detector.currvalues) = 2
    /\ writer.pc = "writing"
    /\ Len(writer.batch) = 1
    /\ ~CompleteSnapshot(current_values)

\* C8 (as claimed): after update_value(v2), has_changed() is true exactly when
\* v2 differs from the value held before the call.
C8_ChangedIffDiffers ==
    lastCall.op = "update_value"
        => (has_changed(dref) <=> lastCall.new_value # lastCall.before.current_value)

\* C8 (amended): after update_value(v2), has_changed() is true exactly when
\* v2, rounded as the value's rounding says, differs from the value held
\* before the call; None counts as a value that differs from every other.
C8_ChangedIffRoundedDiffers ==
    lastCall.op = "update_value"
        => ( has_changed(dref)
               <=> rounded(lastCall.before, lastCall.new_value)
                       # lastCall.before.current_value )

\* C8 witness: a new value that differs from the one held only before
\* rounding, so that has_changed() is false after the call.
C8_Witness ==
    /\ lastCall.op = "update_value"
    /\ lastCall.new_value # lastCall.before.current_value
    /\ lastCall.before.current_value # None
    /\ ~has_changed(dref)

\* C9: an update_value call that returns has called dataref_changed on the
\* registered listeners (each once, in order) if cascade was requested and the
\* rounded new value differs from the previous one, and on none otherwise; the
\* change counter went up by one exactly when the value differs.
C9_CascadeAndChangeCounter ==
    (lastCall.op = "update_value" /\ lastCall.exc = "none")
        => LET differ == rounded(lastCall.before, lastCall.new_value)
                             # lastCall.before.current_value
           IN  /\ SelectSeq(lastCall.calls, IsChanged)
                     = IF lastCall.cascade /\ differ
                       THEN AllListeners("dataref_changed", dref)
                       ELSE <<>>
               /\ dref._changed
                     = lastCall.before._changed + (IF differ THEN 1 ELSE 0)

\* C9 witness: a cascaded change notified two listeners.
C9_Witness ==
    /\ lastCall.op = "update_value"
    /\ lastCall.exc = "none"
    /\ lastCall.cascade
    /\ Len(dref.listeners) = 2
    /\ Len(SelectSeq(lastCall.calls, IsChanged)) = 2
    /\ dref._changed = lastCall.before._changed + 1

Count(seq, x) == Cardinality({i \in 1..Len(seq) : seq[i] = x})

\* the dataref_changed callbacks of a call made on listener l
ChangedCallsOn(calls, l) == SelectSeq(calls, LAMBDA e : IsChanged(e) /\ e.listener = l)

\* C11: however often an object was handed to add_listener(), the listener
\* list holds it exactly once, and a cascaded change that returns has called
\* dataref_changed on that listener exactly once.
C11_IdempotentRegistration ==
    /\ \A obj \in Objects :
            Count(dref.listeners, obj) = IF Count(added, obj) > 0 THEN 1 ELSE 0
    /\ ( /\ lastCall.op = "update_value"
         /\ lastCall.exc = "none"
         /\ lastCall.cascade
         /\ has_changed(dref) )
       => \A l \in Listeners :
              Count(added, l) > 0 => Len(ChangedCallsOn(lastCall.calls, l)) = 1

\* C11 witness: L1 was registered twice and L2 once, and a cascaded change
\* called L1 once.
C11_Witness ==
    /\ Count(added, "L1") = 2
    /\ Count(added, "L2") = 1
    /\ lastCall.op = "update_value"
    /\ lastCall.exc = "none"
    /\ lastCall.cascade
    /\ has_changed(dref)
    /\ Len(ChangedCallsOn(lastCall.calls, "L1")) = 1

\* C12 (as claimed): an object that is not a DatarefListener is never in the
\* listener list, and no callback is ever attempted on it.
C12_NonListenerRejected ==
    /\ \A i \in 1..Len(dref.listeners) : isinstance_DatarefListener(dref.listeners[i])
    /\ \A i \in 1..Len(lastCall.calls) :
            isinstance_DatarefListener(lastCall.calls[i].listener)

\* C13 (as claimed): register(value) adds the value under its path exactly when
\* the path is not a key of the all-values map and is not empty; otherwise the
\* map, and the object stored under the path, are left as they were.
C13_RegisterGuard ==
    lastOp.op = "register"
        => all_datarefs
               = IF lastOp.arg.path \notin DOMAIN lastOp.before /\ lastOp.arg.path # ""
                 THEN DictSet(lastOp.before, lastOp.arg.path, lastOp.arg)
                 ELSE lastOp.before

\* C14 (as claimed): a Dataref constructed from 'p:T' has the type T names:
\* d decimal/int, s string, b byte(s), i and f the default float with the
\* flags as given.
C14_SuffixNamesType ==
    made.suffix # "none"
        => /\ made.suffix = "d"
                => made.obj.is_decimal = "True" /\ made.obj.data_type = "int"
           /\ made.suffix = "s"
                => made.obj.is_string = "True" /\ made.obj.data_type = "str"
           /\ made.suffix = "b" => made.obj.is_string = "byte"
           /\ made.suffix \in {"i", "f"}
                => /\ made.obj.data_type = "float"
                   /\ made.obj.is_decimal = made.is_decimal
                   /\ made.obj.is_string = made.is_string

\* C15 (as claimed): the path of a Dataref constructed from 'p:T' is 'p', and
\* register() stores it under the key 'p'.
C15_SuffixStripped ==
    made.suffix # "none"
        => /\ made.obj.path = made.base
           /\ (lastOp.op = "register" /\ lastOp.arg = made.obj)
                => made.base \in DOMAIN all_datarefs

\* C16 (as claimed): no constructed Dataref is both decimal and string typed.
C16_NeverDecimalAndString ==
    ~both_decimal_and_string(made.obj)

\* C17: anim_start() on a running animation creates no thread, leaves every
\* field as it was with running true, logs a warning and raises nothing; after
\* two anim_start() calls in a row on an animation with one loop thread, that
\* one loop is active.
C17_StartWhileRunning ==
    /\ (lastAnim.op = "anim_start" /\ truthy(lastAnim.before.running))
         => /\ lastAnim.after = lastAnim.before
            /\ lastAnim.after.running = "True"
            /\ lastAnim.warned
            /\ lastAnim.exc = "none"
    /\ ( /\ lastAnim.op = "anim_start"
         /\ lastAnim.prev = "anim_start"
         /\ caller.pc = "idle"
         /\ Len(threads) = 1 )
       => (running = "True" /\ Alive = {1} /\ thread = 1)

\* C17 witness: the second of two anim_start() calls found the animation
\* running; its one loop is in its render step.
C17_Witness ==
    /\ lastAnim.op = "anim_start"
    /\ lastAnim.prev = "anim_start"
    /\ truthy(lastAnim.before.running)
    /\ lastAnim.warned
    /\ threads = <<"render">>

\* C18 (as claimed): after anim_stop() directly followed by anim_start(),
\* running is true and the thread just created is the only loop thread alive.
C18_FreshLoopOnly ==
    ( /\ lastAnim.op = "anim_start"
      /\ lastAnim.prev = "anim_stop"
      /\ ~truthy(lastAnim.before.running)
      /\ caller.pc = "idle" )
    => (running = "True" /\ Alive = {thread})

\* C19 (as claimed): anim_stop() on a running animation sets running to false
\* and returns without raising.
C19_StopReturnsQuietly ==
    (lastAnim.op = "anim_stop" /\ truthy(lastAnim.before.running))
        => (lastAnim.exc = "none" /\ lastAnim.after.running = "False")

\* C20: anim_stop() on an animation that is not running (never started, or
\* stopped) sets no Event, joins no thread, leaves running, the thread handle
\* and every other field as they were, and raises nothing.
C20_StopWhenNotRunning ==
    (lastAnim.op = "anim_stop" /\ ~truthy(lastAnim.before.running))
        => /\ lastAnim.after = lastAnim.before
           /\ ~lastAnim.joined
           /\ lastAnim.exc = "none"

\* C20 witness: anim_stop() on an animation that was started and stopped
\* before; its thread handle still refers to the ended thread.
C20_Witness ==
    /\ lastAnim.op = "anim_stop"
    /\ lastAnim.prev = "anim_stop"
    /\ lastAnim.before.running = "False"
    /\ lastAnim.before.thread = 1
    /\ lastAnim.before.events = {1}
    /\ ~lastAnim.joined
    /\ running = "False"

----------------------------------------------------------------------------
(* Properties of the transport *)

\* the parser fed with a stream one byte at a time, from a buffer and the
\* messages put so far: the first half of the stream, then the second half
\* (the test has the first half evaluated before the second is entered)
RECURSIVE feed_bytes(_, _, _)
feed_bytes(buffer, msgs, stream) ==
    IF stream = <<>> THEN [buffer |-> buffer, put |-> msgs]
    ELSE IF Len(stream) = 1
    THEN LET r == magic_byte_length_parser(buffer, stream)
         IN  [buffer |-> r.buffer, put |-> msgs \o r.put]
    ELSE LET half == Len(stream) \div 2
             fed == feed_bytes(buffer, msgs, SubSeq(stream, 1, half))
         IN  IF fed.put = msgs
             THEN feed_bytes(fed.buffer, msgs, SubSeq(stream, half + 1, Len(stream)))
             ELSE feed_bytes(fed.buffer, fed.put, SubSeq(stream, half + 1, Len(stream)))

\* C21: whatever the chunks the bytes were read in, the messages put and the
\* buffer left are those of the parser fed with the same bytes in one chunk,
\* and those of the parser fed with them one byte at a time
C21_ChunkingEquivalence ==
    /\ [buffer |-> _buffer, put |-> put] = magic_byte_length_parser(<<>>, consumed)
    /\ [buffer |-> _buffer, put |-> put] = feed_bytes(<<>>, <<>>, consumed)

\* a frame of length 0x80 was completed by a chunk of two bytes added to a
\* buffer that held the start of it
C21_Witness ==
    /\ Len(lastRead.chunk) = 2
    /\ lastRead.before # <<>>
    /\ \E i \in 1..Len(lastRead.put) : Len(lastRead.put[i]) = 128

\* a frame of length 0x7F was read in chunks and put
C21_WitnessBelowBoundary ==
    /\ Len(lastRead.chunk) = 1
    /\ lastRead.before # <<>>
    /\ \E i \in 1..Len(lastRead.put) : Len(lastRead.put[i]) = 127

\* C22 as stated: after any bytes and then a frame, all read, the payload of
\* the frame is the one message put and the buffer is empty
C22_RecoversAfterAnyGarbage ==
    (sent.frames # <<>> /\ wire = <<>>) => (put = <<sent.frames[1]>> /\ _buffer = <<>>)

\* C22: after bytes that hold no magic byte and then a frame, all read, the
\* payload of the frame is the one message put and the buffer is empty
C22_RecoversAfterGarbage ==
    (sent.frames # <<>> /\ wire = <<>> /\ find(sent.garbage, magicByte) = -1)
        => (put = <<sent.frames[1]>> /\ _buffer = <<>>)

C22_Witness ==
    /\ Len(sent.garbage) >= 2
    /\ find(sent.garbage, magicByte) = -1
    /\ sent.frames # <<>>
    /\ sent.frames[1] # <<>>
    /\ wire = <<>>
    /\ put = <<sent.frames[1]>>

\* what is left of b when the frames of the messages msgs are taken from it,
\* each with the bytes before its magic byte; <<-1>> when a message is not in
\* b with its magic byte, its length byte and all its bytes
RECURSIVE Remainder(_, _)
Remainder(b, msgs) ==
    IF msgs = <<>> THEN b
    ELSE LET pos == find(b, magicByte)
             m == Head(msgs)
         IN  IF \/ pos = -1
                \/ Len(b) < pos + 2 + Len(m)
                \/ b[pos + 2] # Len(m)
                \/ SubSeq(b, pos + 3, pos + 2 + Len(m)) # m
             THEN <<-1>>
             ELSE Remainder(SubSeq(b, pos + 3 + Len(m), Len(b)), Tail(msgs))

\* C23: every message a parser call puts is in the buffer with its magic byte,
\* its length byte and as many bytes as the length byte says, and the buffer
\* the call leaves holds every byte that is not of such a frame or before it
C23_OnlyCompleteFrames ==
    Remainder(lastRead.before \o lastRead.chunk, lastRead.put) = _buffer

\* a call has put a message and has kept the start of the next frame
C23_Witness ==
    /\ lastRead.put # <<>>
    /\ find(_buffer, magicByte) # -1
    /\ Len(_buffer) >= 2
    /\ _buffer[find(_buffer, magicByte) + 2] > 0

\* the transaction id tid is the one of a tracked request not answered yet
IsPending(pending, tid) == tid \in DOMAIN pending /\ pending[tid] # None

\* C24 as stated: a message that holds a transaction id and whose handler, if
\* any, has returned is given to the resolver of its id, and the id is no
\* longer pending, when the id was pending; it is given to the default
\* callback when the id was not
C24_DispatchResolves ==
    (Len(lastDispatch.buff) >= 3 /\ lastDispatch.outcome \in {"no_handler", "returns"})
        => IF IsPending(lastDispatch.before, lastDispatch.buff[3])
           THEN /\ lastDispatch.invoked = "resolver"
                /\ ~IsPending(lastDispatch.after, lastDispatch.buff[3])
           ELSE lastDispatch.invoked = "default"

\* C27: whatever is raised while a chunk is read or a message is dispatched,
\* the reader thread and the dispatcher thread both stay, and every message
\* put on the queue is taken from it
C27_LoopsSurvive ==
    /\ [](readers = 1 /\ dispatchers = 1)
    /\ []<>(Len(handled) = Len(put))

\* a message too short for a transaction id was dispatched, and the message
\* after it went to the default callback
C27_Witness ==
    /\ Len(handled) = 2
    /\ Len(handled[1]) < 3
    /\ lastDispatch.buff = handled[2]
    /\ lastDispatch.invoked = "default"
    /\ dispatchers = 1

\* a response to a pending request was dispatched: the call of the entry
\* raised, and the dispatcher is there
C27_WitnessResolver ==
    /\ lastDispatch.exc = "TypeError"
    /\ dispatchers = 1

\* s is the start of t
IsPrefix(s, t) == Len(s) <= Len(t) /\ s = SubSeq(t, 1, Len(s))

\* C28: the messages put are the payloads of the frames sent, each once and in
\* the order of the frames, and the dispatcher takes them in that order
C28_Fifo ==
    /\ IsPrefix(put, sent.frames)
    /\ handled \o _messages = put

\* two different frames, the second read before the first was dispatched,
\* have been dispatched
C28_Witness ==
    /\ Len(handled) >= 2
    /\ handled[1] # handled[2]
    /\ IsPrefix(handled, sent.frames)

\* the number of tracked requests not answered yet
PendingCount(pending) == Cardinality({t \in DOMAIN pending : pending[t] # None})

\* C25 as stated: the transaction id a do_action call allocates is not 0, is 1
\* after 255, and was not pending when the call was made, while fewer requests
\* are pending than there are ids
C25_AllocatorSkipsPending ==
    /\ lastDo.id # 0
    /\ lastDo.prev = MAX_TRANSACTIONS - 1 => lastDo.id = 1
    /\ PendingCount(lastDo.before) < MAX_TRANSACTIONS - 1
           => ~IsPending(lastDo.before, lastDo.id)

\* the number the four bytes h[7..10] hold, the first byte the most significant
BigEndian4(h) == ((h[7] * 256 + h[8]) * 256 + h[9]) * 256 + h[10]

\* C26 as stated: a send of n bytes that is not raw does not raise and writes
\* a header and then the payload; the header is of 6 bytes, 0x82 and 0x80+n
\* first, for n <= 0x80, and of 14 bytes, 0x82, 0xFF, four zeros, n in four
\* bytes and four zeros, for n > 0x80
C26_SendHeader ==
    ~lastSend.raw =>
        LET n == Len(lastSend.buff)
            h == lastSend.writes[1]
        IN  /\ lastSend.exc = "none"
            /\ Len(lastSend.writes) = 2
            /\ lastSend.writes[2] = lastSend.buff
            /\ IF n <= 128
               THEN Len(h) = 6 /\ h[1] = 130 /\ h[2] = 128 + n
               ELSE /\ Len(h) = 14
                    /\ SubSeq(h, 1, 6) = <<130, 255, 0, 0, 0, 0>>
                    /\ BigEndian4(h) = n
                    /\ SubSeq(h, 11, 14) = <<0, 0, 0, 0>>

\* C29 as stated: whatever start() and stop() calls were made, one reader
\* thread at most and one dispatcher thread at most are alive
C29_OneReaderOneDispatcher == readers <= 1 /\ dispatchers <= 1

\* the callbacks of either kind a call made for path p
CallsFor(calls, p) == SelectSeq(calls, LAMBDA e : e.path = p)

\* C30 as stated: in a detection pass, a changed snapshot value of a path that
\* is not monitored is stored with no callback at all for that path, neither
\* dataref_changed nor dataref_updated
C30_UnmonitoredSilent ==
    lastOp.op = "detect_changed" =>
        \A i \in 1..Len(lastOp.arg) :
            LET d == lastOp.arg[i][1]
                v == lastOp.arg[i][2]
            IN  ( /\ d \in DOMAIN lastOp.before
                  /\ d \notin DOMAIN lastOp.monitored
                  /\ rounded(lastOp.before[d], v) # lastOp.before[d].current_value )
                => CallsFor(lastOp.calls, d) = <<>>

\* the position of path p in an ordered dict
PositionOf(od, p) == CHOOSE i \in 1..Len(od) : od[i][1] = p

\* C31: at every point of a detection pass, the callbacks made so far are for
\* the items of the copy already passed, in the order of the copy, each with
\* the new value of its path as the value the listener reads; the values of
\* the items passed are stored and their listeners called, and the values of
\* the items to come are not touched yet
C31_SynchronousPerValue ==
    detector.pc = "loop" =>
        LET cv == detector.currvalues
            calls == detector.calls
        IN  /\ \A j \in 1..Len(calls) :
                 /\ calls[j].path \in OKeys(cv)
                 /\ PositionOf(cv, calls[j].path) < detector.i
                 /\ calls[j].current
                        = rounded(all_datarefs[calls[j].path], OGet(cv, calls[j].path))
                 /\ \A k \in (j + 1)..Len(calls) :
                        PositionOf(cv, calls[j].path) <= PositionOf(cv, calls[k].path)
            /\ \A n \in 1..Len(cv) :
                 LET d == cv[n][1]
                 IN  d \in DOMAIN detector.before =>
                        IF n < detector.i
                        THEN /\ all_datarefs[d]._updated = detector.before[d]._updated + 1
                             /\ Len(CallsFor(calls, d)) >= Len(all_datarefs[d].listeners)
                        ELSE all_datarefs[d] = detector.before[d]

\* the first of two items, both with a listener, has been passed: its
\* listener was called, the second value is not stored yet
C31_Witness ==
    /\ detector.pc = "loop"
    /\ detector.i = 2
    /\ Len(detector.currvalues) = 2
    /\ OKeys(detector.currvalues) \subseteq DOMAIN detector.before
    /\ \A p \in OKeys(detector.currvalues) : detector.before[p].listeners = <<"L1">>
    /\ detector.calls # <<>>
    /\ all_datarefs[detector.currvalues[2][1]].current_value # detector.currvalues[2][2]

\* both items have been passed: the callbacks of the first are before those
\* of the second
C31_WitnessBoth ==
    /\ detector.pc = "loop"
    /\ detector.i = 3
    /\ Len(detector.calls) >= 3
    /\ detector.calls[1].path = detector.currvalues[1][1]
    /\ detector.calls[Len(detector.calls)].path = detector.currvalues[2][1]

\* C38 as stated: a detection pass whose snapshot paths were all registered
\* when it started raises nothing, whatever another thread does to the
\* registry maps meanwhile
C38_PassSurvivesRemoval ==
    (detector.pc = "loop" /\ OKeys(detector.currvalues) \subseteq DOMAIN detector.before)
        => detector.exc = "none"

\* C32: when a render() call on a valid representation is over, the loop
\* was started (running true, one more thread) if should_run() was true and
\* it was not running, running is false if should_run() was false and it was
\* running, running is as it was in the other two cases, and so running is
\* true exactly when should_run() was true; an invalid representation
\* leaves running alone
C32_RenderDrivesLoop ==
    /\ (rendering.op = "render" /\ rendering.valid /\ caller.pc = "idle") =>
        /\ truthy(running) <=> rendering.should_run
        /\ (rendering.should_run /\ ~truthy(rendering.before.running))
             => (running = "True" /\ Len(threads) = rendering.before.nthreads + 1)
        /\ (~rendering.should_run /\ truthy(rendering.before.running))
             => running = "False"
        /\ (rendering.should_run <=> truthy(rendering.before.running))
             => running = rendering.before.running
    /\ (rendering.op = "render" /\ ~rendering.valid) => running = rendering.before.running

\* a render() that stopped a running loop has returned from its join
C32_Witness ==
    /\ rendering.op = "render" /\ rendering.valid /\ ~rendering.should_run
    /\ truthy(rendering.before.running)
    /\ caller.pc = "idle"
    /\ lastAnim.op = "anim_stop" /\ lastAnim.joined
    /\ running = "False"

\* a render() that started the loop again after a stop
C32_WitnessStart ==
    /\ rendering.op = "render" /\ rendering.valid /\ rendering.should_run
    /\ rendering.before.running = "False"
    /\ running = "True"

\* C33 as stated: a loop thread that an anim_stop() signalled and, after
\* its join had timed out, left alive ends at its next test of the stop
\* condition, whatever was called after that stop
C33_AbandonedLoopEnds ==
    [][\A t \in 1..Len(threads) :
          (threads[t] = "check" /\ t \in abandoned /\ threads'[t] # threads[t])
              => threads'[t] = "done"]_vars

\* C34 as stated: the steps of a loop thread follow each other as animate,
\* the owner's render, the wait, the test of the stop signal; and a loop
\* whose stop signal has been set starts no further iteration
C34_NoIterationAfterStop ==
    [][\A t \in 1..Len(threads) :
          /\ (threads[t] = "animate" /\ threads'[t] # threads[t]) => threads'[t] = "render"
          /\ (threads[t] = "render" /\ threads'[t] # threads[t]) => threads'[t] = "wait"
          /\ (threads[t] = "wait" /\ threads'[t] # threads[t]) => threads'[t] = "check"
          /\ (threads[t] = "check" /\ t \in events) => threads'[t] # "animate"]_vars

\* C36 as stated: an anim_stop() called right after the anim_start() that
\* created a loop thread raises nothing and has set the Event of that new
\* thread, not the Event an earlier loop left in self.exit
C36_StopAfterStart ==
    ( /\ lastAnim.op = "anim_stop" /\ lastAnim.prev = "anim_start"
      /\ truthy(lastAnim.before.running)
      /\ caller.pc = "idle" )
        => /\ lastAnim.exc = "none"
           /\ lastAnim.before.thread \in events

\* C35 as stated: every id the pending map holds is the id of a tracked
\* request; an id whose response has been dispatched is not pending any
\* more; and dispatching a message whose id is not pending leaves the keys
\* of the map as they were
C35_PendingOnlyUnanswered ==
    /\ DOMAIN pendingTransactions \subseteq DOMAIN InfoRequests.pendingTransactions
    /\ (Len(lastDispatch.buff) >= 3 /\ lastDispatch.outcome \in {"no_handler", "returns"})
         => ~IsPending(pendingTransactions, lastDispatch.buff[3])
    /\ (Len(lastDispatch.buff) >= 3 /\ ~IsPending(lastDispatch.before, lastDispatch.buff[3]))
         => DOMAIN lastDispatch.after = DOMAIN lastDispatch.before

\* C37 as stated: at most one loop thread of a polling animation is inside
\* the body of the render loop at any time
C37_OnePollingLoop == Cardinality(PollLooping) <= 1

\* the monitor count of path p, 0 for a path that is not monitored
MonitorCount(mon, p) == IF p \in DOMAIN mon THEN mon[p] ELSE 0

\* the decks whose installed page, not unloaded since, lists path p
DecksListing(p) ==
    {d \in DeckNames : /\ decks[d].loaded
                       /\ \E i \in 1..Len(PageDatarefs[decks[d].current_page]) :
                             PageDatarefs[decks[d].current_page][i] = p}

\* C39 as stated: the monitor count of every path that is not internal is
\* the number of decks whose installed, not unloaded page lists the path
C39_CountsMatchPages ==
    \A p \in ExternalPaths :
        MonitorCount(datarefs_to_monitor, p) = Cardinality(DecksListing(p))

\* C40 as stated: a stop() that was called returns, whichever thread called
\* it and whatever other threads of the process are running
C40_StopReturns == stopping ~> ~stopping

====
